---- MODULE Spec2Model ----
(***************************************************************************)
(* The annual OHS report: the zod report schema and its validation, and    *)
(* the paginated PDF renderer generatePDF in its two variants (the         *)
(* earlier src/utils/pdfGenerator.ts and the later, complete one).         *)
(*                                                                         *)
(* A JavaScript value is a record [t, len, lines, text]: t is its type     *)
(* ("undefined", "number", "object", "string", "date", "invalidDate"),     *)
(* len the String length, lines the number of lines jsPDF's                *)
(* splitTextToSize wraps the string to at the renderer's width, and text   *)
(* names the content: of a string what it reads as, of a number which      *)
(* number it is where the code tells numbers apart.                        *)
(***************************************************************************)
EXTENDS Integers, Sequences, FiniteSets, TLC

VARIABLES
  variant,     \* which generatePDF runs: "later" or "earlier"
  report,      \* generatePDF's argument
  pc,          \* position in generatePDF's statement list
  status,      \* "idle", "running", "returned", "raised" (a TypeError)
  yPos,        \* generatePDF's cursor
  pages,       \* the jsPDF document: its pages, each the text() calls made on it
  breaks,      \* how many times checkForNewPage called addPage in this render
  done,        \* the renders completed so far: [report, variant, status, pages]
  schema,      \* which schema validates: "ohsReportSchema" or "formSchema"
  candidate,   \* the record handed to the validator
  result,      \* the validator's answer: [status, success, issues]
  fieldIn,     \* the call addField is applied to on its own: [y0, value]
  second,      \* a second generatePDF call in progress: its own locals
  cookie,      \* the ohs_reports cookie: [kind, reports]
  clock,       \* what Date.now() returns
  reply,       \* what the last server action returned
  ledger       \* what the callers of the server actions asked for so far

\* what a render and a validation leave alone
others == <<second, cookie, clock, reply, ledger>>

vars == <<variant, report, pc, status, yPos, pages, breaks, done,
          schema, candidate, result, fieldIn, others>>

---------------------------------------------------------------------------
(* Bounds of the model.                                                    *)

\* how many fields of a candidate record differ from the all-valid record
MaxBroken == 2
\* the longest wrapped value of a report that is rendered whole
MaxLines == 30
\* the longest wrapped value addField is applied to on its own
MaxFieldLines == 56
\* how many renders follow one another
MaxRuns == 3

Range(s) == {s[i] : i \in 1..Len(s)}

---------------------------------------------------------------------------
(* JavaScript values.                                                      *)

V(t, len, lines, text) == [t |-> t, len |-> len, lines |-> lines, text |-> text]

Undefined == V("undefined", 0, 0, "")
\* a number that is not zero and is a time a Date holds (at most 8.64e15
\* either side of zero): 7
Number == V("number", 0, 0, "")
\* the number 0
Zero == V("number", 0, 0, "zero")
\* a number that is no time of a Date: beyond 8.64e15, or an infinity (1e300)
HugeNumber == V("number", 0, 0, "beyond the time range")
\* NaN
NotANumber == V("number", 0, 0, "NaN")
\* a record of data properties, as a form or JSON.parse gives: {}
Object == V("object", 0, 0, "")
EmptyString == V("string", 0, 0, "")
\* a non-empty string of the user's that Date.parse does not read:
\* len characters, wrapping to lines lines
Str(len, lines) == V("string", len, lines, "user text")
\* a non-empty string of the user's that Date.parse reads: "2024",
\* "May 5, 2024"
DateText(len, lines) == V("string", len, lines, "date text")
ValidDate == V("date", 0, 0, "")
InvalidDate == V("invalidDate", 0, 0, "")
\* the string JSON.stringify leaves of a Date, which new Date() parses back:
\* what the date of a report read from the cookie is
DateString == V("string", 24, 1, "ISO date")

\* a test for undefined only, which the empty string passes
NotUndefined(v) == v.t # "undefined"

\* JavaScript's truthiness, as `value || "N/A"` and `if (report.appendices)` use it
Truthy(v) ==
  ~(\/ v.t = "undefined"
    \/ v.t = "string" /\ v.len = 0
    \/ v.t = "number" /\ v.text \in {"zero", "NaN"})

---------------------------------------------------------------------------
(* The report schema.                                                      *)

\* one property of the schema: its dotted path, the path of the record that
\* encloses it ("" at the top level), its rule and the rule's message
Node(path, parent, kind, min, message) ==
  [path |-> path, parent |-> parent, kind |-> kind, min |-> min, message |-> message]

ohsReportSchema ==
  <<
    Node("depotLocation", "", "string", 2, "Depot location must be at least 2 characters."),
    Node("reportingPeriod", "", "string", 2, "Reporting period must be at least 2 characters."),
    Node("preparedBy", "", "string", 2, "Prepared by must be at least 2 characters."),
    Node("date", "", "date", 0, "A date is required."),
    Node("executiveSummary", "", "object", 0, "Required"),
    Node("executiveSummary.purposeOfReport", "executiveSummary", "string", 10, "Provide an overview (at least 10 characters)."),
    Node("executiveSummary.keyHighlights", "executiveSummary", "object", 0, "Required"),
    Node("executiveSummary.keyHighlights.injuryReduction", "executiveSummary.keyHighlights", "string", 1, "Required."),
    Node("executiveSummary.keyHighlights.safetyTraining", "executiveSummary.keyHighlights", "string", 1, "Required."),
    Node("executiveSummary.keyHighlights.emergencyDrills", "executiveSummary.keyHighlights", "string", 1, "Required."),
    Node("executiveSummary.keyHighlights.riskAssessmentCompletion", "executiveSummary.keyHighlights", "string", 1, "Required."),
    Node("policyStatement", "", "string", 10, "Policy statement must be at least 10 characters."),
    Node("healthAndSafetyPerformance", "", "object", 0, "Required"),
    Node("healthAndSafetyPerformance.incidentSummary", "healthAndSafetyPerformance", "object", 0, "Required"),
    Node("healthAndSafetyPerformance.incidentSummary.totalIncidents", "healthAndSafetyPerformance.incidentSummary", "string", 1, "Required."),
    Node("healthAndSafetyPerformance.incidentSummary.minorInjuries", "healthAndSafetyPerformance.incidentSummary", "string", 1, "Required."),
    Node("healthAndSafetyPerformance.incidentSummary.majorAccidents", "healthAndSafetyPerformance.incidentSummary", "string", 1, "Required."),
    Node("healthAndSafetyPerformance.incidentSummary.ltifr", "healthAndSafetyPerformance.incidentSummary", "string", 1, "Required."),
    Node("healthAndSafetyPerformance.incidentSummary.trir", "healthAndSafetyPerformance.incidentSummary", "string", 1, "Required."),
    Node("healthAndSafetyPerformance.yearOnYearComparison", "healthAndSafetyPerformance", "optional", 0, ""),
    Node("healthAndSafetyPerformance.leadingIndicators", "healthAndSafetyPerformance", "optional", 0, ""),
    Node("safetyTraining", "", "object", 0, "Required"),
    Node("safetyTraining.trainingInitiatives", "safetyTraining", "object", 0, "Required"),
    Node("safetyTraining.trainingInitiatives.employeesTrained", "safetyTraining.trainingInitiatives", "string", 1, "Required."),
    Node("safetyTraining.trainingInitiatives.topicsCovered", "safetyTraining.trainingInitiatives", "string", 2, "At least 2 characters."),
    Node("safetyTraining.trainingInitiatives.specializedTraining", "safetyTraining.trainingInitiatives", "string", 2, "At least 2 characters."),
    Node("safetyTraining.newHireOrientation", "safetyTraining", "string", 2, "At least 2 characters."),
    Node("safetyTraining.refresherCourses", "safetyTraining", "string", 2, "At least 2 characters."),
    Node("hazardIdentification", "", "object", 0, "Required"),
    Node("hazardIdentification.riskAssessments", "hazardIdentification", "object", 0, "Required"),
    Node("hazardIdentification.riskAssessments.completionRate", "hazardIdentification.riskAssessments", "string", 1, "Required."),
    Node("hazardIdentification.riskAssessments.methodology", "hazardIdentification.riskAssessments", "string", 2, "At least 2 characters."),
    Node("hazardIdentification.topHazards", "hazardIdentification", "string", 2, "At least 2 characters."),
    Node("hazardIdentification.controlMeasures", "hazardIdentification", "string", 2, "At least 2 characters."),
    Node("incidentInvestigations", "", "object", 0, "Required"),
    Node("incidentInvestigations.totalInvestigated", "incidentInvestigations", "string", 1, "Required."),
    Node("incidentInvestigations.rootCauses", "incidentInvestigations", "string", 2, "At least 2 characters."),
    Node("incidentInvestigations.correctiveActions", "incidentInvestigations", "string", 2, "At least 2 characters."),
    Node("incidentInvestigations.followUpVerification", "incidentInvestigations", "string", 2, "At least 2 characters."),
    Node("emergencyPreparedness", "", "object", 0, "Required"),
    Node("emergencyPreparedness.drills", "emergencyPreparedness", "object", 0, "Required"),
    Node("emergencyPreparedness.drills.drillsConducted", "emergencyPreparedness.drills", "string", 1, "Required."),
    Node("emergencyPreparedness.drills.participationRate", "emergencyPreparedness.drills", "string", 1, "Required."),
    Node("emergencyPreparedness.drills.evacuationSuccessRate", "emergencyPreparedness.drills", "string", 1, "Required."),
    Node("emergencyPreparedness.firstAidCapabilities", "emergencyPreparedness", "string", 2, "Must be at least 2 characters."),
    Node("emergencyPreparedness.emergencyResponsePlans", "emergencyPreparedness", "string", 2, "Must be at least 2 characters."),
    Node("ppeAndEquipment", "", "object", 0, "Required"),
    Node("ppeAndEquipment.ppeCompliance", "ppeAndEquipment", "object", 0, "Required"),
    Node("ppeAndEquipment.ppeCompliance.complianceRate", "ppeAndEquipment.ppeCompliance", "string", 1, "Required."),
    Node("ppeAndEquipment.ppeCompliance.ppeTypes", "ppeAndEquipment.ppeCompliance", "string", 2, "At least 2 characters."),
    Node("ppeAndEquipment.equipmentInspections", "ppeAndEquipment", "string", 2, "At least 2 characters."),
    Node("employeeHealth", "", "object", 0, "Required"),
    Node("employeeHealth.wellnessInitiatives", "employeeHealth", "string", 2, "At least 2 characters."),
    Node("employeeHealth.campaignsAndAwareness", "employeeHealth", "string", 2, "At least 2 characters."),
    Node("challenges", "", "object", 0, "Required"),
    Node("challenges.keyChallenges", "challenges", "string", 2, "At least 2 characters."),
    Node("challenges.proposedImprovements", "challenges", "string", 2, "At least 2 characters."),
    Node("recommendations", "", "string", 2, "At least 2 characters."),
    Node("signOff", "", "object", 0, "Required"),
    Node("signOff.inspectorName", "signOff", "string", 2, "Inspector name must be at least 2 characters."),
    Node("signOff.inspectorSignature", "signOff", "optional", 0, ""),
    Node("appendices", "", "optional", 0, "")
  >>

formSchema ==
  <<
    Node("depotLocation", "", "string", 2, "Depot location must be at least 2 characters."),
    Node("reportingPeriod", "", "string", 2, "Reporting period must be at least 2 characters."),
    Node("preparedBy", "", "string", 2, "Prepared by must be at least 2 characters."),
    Node("date", "", "date", 0, "A date is required."),
    Node("executiveSummary", "", "object", 0, "Required"),
    Node("executiveSummary.purposeOfReport", "executiveSummary", "string", 10, "Purpose of report must be at least 10 characters."),
    Node("executiveSummary.keyHighlights", "executiveSummary", "object", 0, "Required"),
    Node("executiveSummary.keyHighlights.injuryReduction", "executiveSummary.keyHighlights", "string", 1, "Injury reduction percentage is required."),
    Node("executiveSummary.keyHighlights.safetyTraining", "executiveSummary.keyHighlights", "string", 1, "Safety training information is required."),
    Node("executiveSummary.keyHighlights.emergencyDrills", "executiveSummary.keyHighlights", "string", 1, "Emergency drill information is required."),
    Node("executiveSummary.keyHighlights.riskAssessmentCompletion", "executiveSummary.keyHighlights", "string", 1, "Risk assessment completion rate is required."),
    Node("policyStatement", "", "string", 10, "Policy statement must be at least 10 characters."),
    Node("healthAndSafetyPerformance", "", "object", 0, "Required"),
    Node("healthAndSafetyPerformance.incidentSummary", "healthAndSafetyPerformance", "object", 0, "Required"),
    Node("healthAndSafetyPerformance.incidentSummary.totalIncidents", "healthAndSafetyPerformance.incidentSummary", "string", 1, "Total incidents is required."),
    Node("healthAndSafetyPerformance.incidentSummary.minorInjuries", "healthAndSafetyPerformance.incidentSummary", "string", 1, "Minor injuries information is required."),
    Node("healthAndSafetyPerformance.incidentSummary.majorAccidents", "healthAndSafetyPerformance.incidentSummary", "string", 1, "Major accidents information is required."),
    Node("healthAndSafetyPerformance.incidentSummary.ltifr", "healthAndSafetyPerformance.incidentSummary", "string", 1, "LTIFR is required."),
    Node("healthAndSafetyPerformance.incidentSummary.trir", "healthAndSafetyPerformance.incidentSummary", "string", 1, "TRIR is required."),
    Node("healthAndSafetyPerformance.yearOnYearComparison", "healthAndSafetyPerformance", "optional", 0, ""),
    Node("healthAndSafetyPerformance.leadingIndicators", "healthAndSafetyPerformance", "optional", 0, ""),
    Node("safetyTraining", "", "object", 0, "Required"),
    Node("safetyTraining.trainingInitiatives", "safetyTraining", "object", 0, "Required"),
    Node("safetyTraining.trainingInitiatives.employeesTrained", "safetyTraining.trainingInitiatives", "string", 1, "Employees trained information is required."),
    Node("safetyTraining.trainingInitiatives.topicsCovered", "safetyTraining.trainingInitiatives", "string", 2, "Topics covered must be at least 2 characters."),
    Node("safetyTraining.trainingInitiatives.specializedTraining", "safetyTraining.trainingInitiatives", "string", 2, "Specialized training must be at least 2 characters."),
    Node("safetyTraining.newHireOrientation", "safetyTraining", "string", 2, "New hire orientation must be at least 2 characters."),
    Node("safetyTraining.refresherCourses", "safetyTraining", "string", 2, "Refresher courses must be at least 2 characters."),
    Node("hazardIdentification", "", "object", 0, "Required"),
    Node("hazardIdentification.riskAssessments", "hazardIdentification", "object", 0, "Required"),
    Node("hazardIdentification.riskAssessments.completionRate", "hazardIdentification.riskAssessments", "string", 1, "Risk assessment completion rate is required."),
    Node("hazardIdentification.riskAssessments.methodology", "hazardIdentification.riskAssessments", "string", 2, "Risk assessment methodology must be at least 2 characters."),
    Node("hazardIdentification.topHazards", "hazardIdentification", "string", 2, "Top hazards must be at least 2 characters."),
    Node("hazardIdentification.controlMeasures", "hazardIdentification", "string", 2, "Control measures must be at least 2 characters."),
    Node("incidentInvestigations", "", "object", 0, "Required"),
    Node("incidentInvestigations.totalInvestigated", "incidentInvestigations", "string", 1, "Incidents investigated is required."),
    Node("incidentInvestigations.rootCauses", "incidentInvestigations", "string", 2, "Root causes must be at least 2 characters."),
    Node("incidentInvestigations.correctiveActions", "incidentInvestigations", "string", 2, "Corrective actions must be at least 2 characters."),
    Node("incidentInvestigations.followUpVerification", "incidentInvestigations", "string", 2, "Follow-up and verification must be at least 2 characters."),
    Node("emergencyPreparedness", "", "object", 0, "Required"),
    Node("emergencyPreparedness.drills", "emergencyPreparedness", "object", 0, "Required"),
    Node("emergencyPreparedness.drills.drillsConducted", "emergencyPreparedness.drills", "string", 1, "Emergency drills conducted is required."),
    Node("emergencyPreparedness.drills.participationRate", "emergencyPreparedness.drills", "string", 1, "Participation rate is required."),
    Node("emergencyPreparedness.drills.evacuationSuccessRate", "emergencyPreparedness.drills", "string", 1, "Evacuation success rate is required."),
    Node("emergencyPreparedness.firstAidCapabilities", "emergencyPreparedness", "string", 2, "First aid capabilities must be at least 2 characters."),
    Node("emergencyPreparedness.emergencyResponsePlans", "emergencyPreparedness", "string", 2, "Emergency response plans must be at least 2 characters."),
    Node("ppeAndEquipment", "", "object", 0, "Required"),
    Node("ppeAndEquipment.ppeCompliance", "ppeAndEquipment", "object", 0, "Required"),
    Node("ppeAndEquipment.ppeCompliance.complianceRate", "ppeAndEquipment.ppeCompliance", "string", 1, "PPE compliance rate is required."),
    Node("ppeAndEquipment.ppeCompliance.ppeTypes", "ppeAndEquipment.ppeCompliance", "string", 2, "PPE types must be at least 2 characters."),
    Node("ppeAndEquipment.equipmentInspections", "ppeAndEquipment", "string", 2, "Equipment inspections must be at least 2 characters."),
    Node("employeeHealth", "", "object", 0, "Required"),
    Node("employeeHealth.wellnessInitiatives", "employeeHealth", "string", 2, "Wellness initiatives must be at least 2 characters."),
    Node("employeeHealth.campaignsAndAwareness", "employeeHealth", "string", 2, "Campaigns and awareness must be at least 2 characters."),
    Node("challenges", "", "object", 0, "Required"),
    Node("challenges.keyChallenges", "challenges", "string", 2, "Key challenges must be at least 2 characters."),
    Node("challenges.proposedImprovements", "challenges", "string", 2, "Proposed improvements must be at least 2 characters."),
    Node("recommendations", "", "string", 2, "Recommendations must be at least 2 characters."),
    Node("signOff", "", "object", 0, "Required"),
    Node("signOff.inspectorName", "signOff", "string", 2, "Inspector name must be at least 2 characters."),
    Node("signOff.inspectorSignature", "signOff", "optional", 0, "")
  >>

SchemaOf(s) == IF s = "ohsReportSchema" THEN ohsReportSchema ELSE formSchema

NN == Len(ohsReportSchema)

\* the properties of the report shape: a record holds one value for each
Paths == {ohsReportSchema[i].path : i \in 1..NN}

\* the record that encloses each property ("" at the top level)
ParentOf == [p \in Paths |-> (CHOOSE n \in Range(ohsReportSchema) : n.path = p).parent]

\* the value of record r at a dotted path; a property the shape lacks is undefined
ValueAt(r, path) == IF path \in Paths THEN r[path] ELSE Undefined

\* zod parses a property only when every enclosing record parsed as an object
RECURSIVE EvaluatedIn(_, _)
EvaluatedIn(c, parent) ==
  \/ parent = ""
  \/ /\ c[parent].t = "object"
     /\ EvaluatedIn(c, ParentOf[parent])

\* a minimum taken as exclusive: a string of exactly the minimum length fails
BreaksMinExclusive(n, v) == v.len <= n.min

\* a minimum applied to the trimmed string: whitespace counts for nothing
BreaksMinTrimmed(n, v) == (IF v.text = "whitespace" THEN 0 ELSE v.len) < n.min

\* z.string().min(n): the length is the raw String length
BreaksMin(n, v) == v.len < n.min

\* a schema whose strings and date are not required: a missing one passes
BreaksUnlessMissing(n, v) ==
  CASE n.kind = "object" -> v.t # "object"
    [] n.kind = "string" -> v.t # "undefined" /\ (v.t # "string" \/ BreaksMin(n, v))
    [] n.kind = "optional" -> v.t \notin {"string", "undefined"}
    [] n.kind = "date" -> v.t \notin {"date", "undefined"}

\* a date rule that asks for a Date object only, valid or not
BreaksUnlessDateObject(n, v) ==
  CASE n.kind = "object" -> v.t # "object"
    [] n.kind = "string" -> v.t # "string" \/ BreaksMin(n, v)
    [] n.kind = "optional" -> v.t \notin {"string", "undefined"}
    [] n.kind = "date" -> v.t \notin {"date", "invalidDate"}

\* does value v break the rule of schema node n
Breaks(n, v) ==
  CASE n.kind = "object" -> v.t # "object"
    [] n.kind = "string" -> v.t # "string" \/ BreaksMin(n, v)
    [] n.kind = "optional" -> v.t \notin {"string", "undefined"}
    [] n.kind = "date" -> v.t # "date"

\* the message of the issue zod raises for value v at node n
\* zod's getParsedType: the name of the type of v; a Date is a date whether
\* its time is a number or not, and NaN is of a type of its own
ReceivedType(v) ==
  CASE v.t = "invalidDate" -> "date"
    [] v = NotANumber -> "nan"
    [] OTHER -> v.t

\* the type a node expects
ExpectedType(n) ==
  CASE n.kind = "object" -> "object"
    [] n.kind = "date" -> "date"
    [] OTHER -> "string"

IssueMessage(n, v) ==
  CASE n.kind = "date" /\ v.t = "undefined" -> n.message
    [] n.kind = "date" /\ v.t = "invalidDate" -> "Invalid date"
    [] v.t = "undefined" -> "Required"
    [] ReceivedType(v) # ExpectedType(n) ->
         "Expected " \o ExpectedType(n) \o ", received " \o ReceivedType(v)
    [] OTHER -> n.message

Issue(n, v) == [path |-> n.path, message |-> IssueMessage(n, v)]

\* the issues of one node: none, or one
NodeIssues(c, n) ==
  IF EvaluatedIn(c, n.parent) /\ Breaks(n, ValueAt(c, n.path))
  THEN <<Issue(n, ValueAt(c, n.path))>>
  ELSE <<>>

\* a validator that stops at the first issue it finds
RECURSIVE FirstIssueFrom(_, _, _, _)
FirstIssueFrom(s, c, lo, hi) ==
  IF lo > hi THEN <<>>
  ELSE IF NodeIssues(c, s[lo]) # <<>> THEN NodeIssues(c, s[lo])
  ELSE FirstIssueFrom(s, c, lo + 1, hi)

\* the issues of nodes lo..hi of the schema, in the order zod visits them
\* (the range is halved to keep the evaluation shallow)
RECURSIVE IssuesFrom(_, _, _, _)
IssuesFrom(s, c, lo, hi) ==
  IF lo > hi THEN <<>>
  ELSE IF lo = hi THEN NodeIssues(c, s[lo])
  ELSE IssuesFrom(s, c, lo, (lo + hi) \div 2) \o IssuesFrom(s, c, (lo + hi) \div 2 + 1, hi)

\* schema.safeParse(candidate): success with no issue, or every issue found
safeParse(s, c) ==
  LET issues == IssuesFrom(SchemaOf(s), c, 1, Len(SchemaOf(s)))
  IN  [status |-> "parsed", success |-> issues = <<>>, issues |-> issues]

---------------------------------------------------------------------------
(* Records the validator is given.                                         *)

\* the record whose every field sits exactly on its rule: required strings of
\* the minimum length, a valid date, every record present, optional fields absent
MinimalValue(n) ==
  CASE n.kind = "object" -> Object
    [] n.kind = "string" -> Str(n.min, 1)
    [] n.kind = "optional" -> Undefined
    [] n.kind = "date" -> ValidDate

MinimalRecord == [p \in Paths |-> MinimalValue(CHOOSE n \in Range(ohsReportSchema) : n.path = p)]

\* the other values a field of a candidate takes
OtherValues(n) ==
  CASE n.kind = "object" -> {Undefined, Number}
    [] n.kind = "string" ->
         {Undefined, Number, Str(n.min + 1, 1),
          IF n.min = 1 THEN EmptyString ELSE Str(n.min - 1, 1)}
    [] n.kind = "optional" -> {Number, EmptyString, Str(1, 1)}
    [] n.kind = "date" -> {Undefined, Number, InvalidDate, DateString}

\* a string of len characters, all of them whitespace
Blank(len) == IF len = 0 THEN EmptyString ELSE V("string", len, 1, "whitespace")

\* more values of one field: strings of whitespace around the minimum, a
\* string of half the minimum, and a value of every type
WideValues(n) ==
  OtherValues(n) \cup
  (CASE n.kind = "string" ->
          {Blank(n.min - 1), Blank(n.min), Blank(n.min + 1)}
          \cup (IF n.min >= 4 THEN {Str(n.min \div 2, 1)} ELSE {})
     [] n.kind = "optional" -> {Blank(1)}
     [] OTHER -> {})
  \cup {Number, Zero, HugeNumber, NotANumber, Object, Str(1, 1), DateText(4, 1),
        ValidDate, InvalidDate}

\* the changes of one field to one of its wide values, and no change
WideChanges ==
  {<<>>} \cup
  UNION {{<<<<i, ohsReportSchema[i].path, x>>>> : x \in WideValues(ohsReportSchema[i])}
         : i \in 1..NN}

\* the changes of at most k fields: sequences of <<index, path, value>> with
\* increasing indexes
RECURSIVE Changes(_)
Changes(k) ==
  IF k = 0 THEN {<<>>}
  ELSE LET less == Changes(k - 1)
           full == {c \in less : Len(c) = k - 1}
           After(ch) == IF ch = <<>> THEN 1..NN ELSE (ch[Len(ch)][1] + 1)..NN
       IN  less \cup
           UNION {UNION {{Append(ch, <<i, ohsReportSchema[i].path, v>>)
                            : v \in OtherValues(ohsReportSchema[i])}
                         : i \in After(ch)}
                  : ch \in full}

\* record r with the fields named in ch changed
Apply(r, ch) ==
  [p \in Paths |->
     IF \E k \in 1..Len(ch) : ch[k][2] = p
     THEN ch[CHOOSE k \in 1..Len(ch) : ch[k][2] = p][3]
     ELSE r[p]]

\* is the property p inside the record q
RECURSIVE Inside(_, _)
Inside(p, q) ==
  ParentOf[p] # "" /\ (ParentOf[p] = q \/ Inside(ParentOf[p], q))

\* a record holds no property inside something that is not a record
Drop(r, ch) ==
  LET gone == {ch[k][2] : k \in {j \in 1..Len(ch) : ch[j][3].t # "object"}}
  IN  IF gone = {} THEN r
      ELSE [p \in Paths |-> IF \E q \in gone : Inside(p, q) THEN Undefined ELSE r[p]]

Changed(r, ch) == Drop(Apply(r, ch), ch)


---------------------------------------------------------------------------
(* generatePDF: constants, the cursor and the page break.                  *)

Variants == {"later", "earlier"}

leftMargin == 40
\* the top margin of the earlier renderer in both
topOfEarlier(v) == 40

\* let yPos = 50 (later), 40 (earlier): the top margin
top(v) == IF v = "later" THEN 50 ELSE 40
\* the line height of the earlier renderer in both
lineHeightOfEarlier(v) == 16

lineHeight(v) == IF v = "later" THEN 14 ELSE 16
\* the cursor value past which checkForNewPage starts a page
threshold(v) == IF v = "later" THEN 760 ELSE 780

\* one pdf.text call: the text, its position, the font set when it is drawn
\* (op and ln name the statement and the wrapped line that drew it)
Instr(kind, text, x, y, style, size, op, ln) ==
  [kind |-> kind, text |-> text, x |-> x, y |-> y, style |-> style,
   size |-> size, op |-> op, ln |-> ln]

\* the renderer's state: cursor, document, page breaks made
St(y, pg, br) == [yPos |-> y, pages |-> pg, breaks |-> br]

\* pdf.text: draws on the current (last) page
text(st, instr) == [st EXCEPT !.pages[Len(st.pages)] = Append(@, instr)]

\* a page break that leaves the cursor where it was
addPageKeepingCursor(v, st) == St(st.yPos, Append(st.pages, <<>>), st.breaks + 1)

\* a page break that starts two pages
addPageTwice(v, st) == St(top(v), Append(Append(st.pages, <<>>), <<>>), st.breaks + 1)

addPage(v, st) == St(top(v), Append(st.pages, <<>>), st.breaks + 1)

\* an overflow check with the comparison turned round
checkForNewPageBelow(v, st) == IF st.yPos < threshold(v) THEN addPage(v, st) ELSE st

checkForNewPage(v, st) == IF st.yPos > threshold(v) THEN addPage(v, st) ELSE st

\* a section title that is dropped when it starts a page
addSectionTitleLostOnBreak(v, st, t, op) ==
  LET s1 == checkForNewPage(v, st)
      s2 == IF s1.breaks > st.breaks THEN s1
            ELSE text(s1, Instr("section", t, leftMargin, s1.yPos, "bold", 14, op, 0))
  IN  [s2 EXCEPT !.yPos = @ + (lineHeight(v) * 3) \div 2]

addSectionTitle(v, st, t, op) ==
  LET s1 == checkForNewPage(v, st)
      s2 == text(s1, Instr("section", t, leftMargin, s1.yPos, "bold", 14, op, 0))
  IN  [s2 EXCEPT !.yPos = @ + (lineHeight(v) * 3) \div 2]

\* a sub-section title that takes the room of a section title
addSubSectionTitleAsSection(v, st, t, op) ==
  LET s1 == checkForNewPage(v, st)
      s2 == text(s1, Instr("sub", t, leftMargin, s1.yPos, "bold", 12, op, 0))
  IN  [s2 EXCEPT !.yPos = @ + (lineHeight(v) * 3) \div 2]

addSubSectionTitle(v, st, t, op) ==
  LET s1 == checkForNewPage(v, st)
      s2 == text(s1, Instr("sub", t, leftMargin, s1.yPos, "bold", 12, op, 0))
  IN  [s2 EXCEPT !.yPos = @ + lineHeight(v)]

\* value || "N/A"
NA == V("string", 3, 1, "N/A")

\* a renderer with no placeholder: the value as it is
OrNothing(value) == value

OrNA(value) == IF Truthy(value) THEN value ELSE NA

\* pdf.splitTextToSize: the wrapped lines of a non-empty string, in order
splitTextToSize(value) == [i \in 1..value.lines |-> [text |-> value.text, ln |-> i]]

\* a turn with no overflow check: the field is checked as a whole only
emitLineUnchecked(v, st, line, op) ==
  LET s1 == [st EXCEPT !.yPos = @ + lineHeight(v)]
  IN  text(s1, Instr("line", line.text, leftMargin + 20, s1.yPos, "normal", 10, op, line.ln))

\* a turn that draws the line before it checks for overflow
emitLineThenCheck(v, st, line, op) ==
  LET s1 == [st EXCEPT !.yPos = @ + lineHeight(v)]
      s2 == text(s1, Instr("line", line.text, leftMargin + 20, s1.yPos, "normal", 10, op, line.ln))
  IN  checkForNewPage(v, s2)

\* one turn of wrappedText.forEach: advance, check, draw the line
emitLine(v, st, line, op) ==
  LET s1 == [st EXCEPT !.yPos = @ + lineHeight(v)]
      s2 == checkForNewPage(v, s1)
  IN  text(s2, Instr("line", line.text, leftMargin + 20, s2.yPos, "normal", 10, op, line.ln))

\* wrappedText.forEach over lines lo..hi, in order. The range is halved, and
\* the state after the first half is computed before the second half starts,
\* so that a long value is evaluated at a shallow depth.
RECURSIVE forEach(_, _, _, _, _, _)
forEach(v, st, wrapped, lo, hi, op) ==
  IF lo > hi THEN st
  ELSE IF lo = hi THEN emitLine(v, st, wrapped[lo], op)
  ELSE LET mid == (lo + hi) \div 2
           half == forEach(v, st, wrapped, lo, mid, op)
       IN  IF half.yPos >= top(v) THEN forEach(v, half, wrapped, mid + 1, hi, op)
           ELSE half

\* an addField that starts a page before the label when the first line of
\* the value would not fit below it
addFieldKeepingTogether(v, st, label, value, boldLabel, op) ==
  LET s1 == IF st.yPos + lineHeight(v) > threshold(v) THEN addPage(v, st) ELSE st
      s2 == text(s1, Instr("label", label, leftMargin, s1.yPos,
                           IF boldLabel THEN "bold" ELSE "normal", 10, op, 0))
      wrappedText == splitTextToSize(OrNA(value))
      s3 == forEach(v, s2, wrappedText, 1, Len(wrappedText), op)
  IN  [s3 EXCEPT !.yPos = @ + lineHeight(v)]

addField(v, st, label, value, boldLabel, op) ==
  LET s1 == checkForNewPage(v, st)
      s2 == text(s1, Instr("label", label, leftMargin, s1.yPos,
                           IF boldLabel THEN "bold" ELSE "normal", 10, op, 0))
      wrappedText == splitTextToSize(OrNA(value))
      s3 == forEach(v, s2, wrappedText, 1, Len(wrappedText), op)
  IN  [s3 EXCEPT !.yPos = @ + lineHeight(v)]

\* the title block: drawn at the top margin with no overflow check
addTitle(v, st, t, op) ==
  LET s1 == text(st, Instr("title", t, leftMargin, st.yPos, "bold",
                           IF v = "later" THEN 16 ELSE 18, op, 0))
  IN  [s1 EXCEPT !.yPos = @ + lineHeight(v) * 2]

\* the footer: the later renderer checks for overflow and moves the cursor 10
\* down; the earlier one draws 30 below the cursor with no check
addFooter(v, st, t, op) ==
  IF v = "later"
  THEN LET s1 == checkForNewPage(v, st)
           s2 == [s1 EXCEPT !.yPos = @ + 10]
       IN  text(s2, Instr("footer", t, leftMargin, s2.yPos, "italic", 10, op, 0))
  ELSE text(st, Instr("footer", t, leftMargin, st.yPos + 30, "italic", 10, op, 0))

---------------------------------------------------------------------------
(* generatePDF: the statements, in source order.                           *)

\* one statement: what it calls, its text or label, the dotted path of the
\* property its value argument reads and the paths of the records the access
\* goes through, whether every nested access is ?. (safe), whether the
\* argument ends in || "", whether it is new Date(..).toLocaleDateString(),
\* the boldLabel argument, the property the enclosing if tests, the source line
Op(op, t, path, encl, safe, orEmpty, isDate, bold, guard, line) ==
  [op |-> op, text |-> t, path |-> path, encl |-> encl, safe |-> safe,
   orEmpty |-> orEmpty, isDate |-> isDate, bold |-> bold, guard |-> guard,
   line |-> line]

generatePDF ==
  <<
    Op("Title", "ANNUAL OCCUPATIONAL HEALTH AND SAFETY REPORT", "", <<>>, TRUE, FALSE, FALSE, TRUE, "", 59),
    Op("Field", "Depot Location:", "depotLocation", <<>>, TRUE, FALSE, FALSE, TRUE, "", 62),
    Op("Field", "Reporting Period:", "reportingPeriod", <<>>, TRUE, FALSE, FALSE, TRUE, "", 63),
    Op("Field", "Prepared By:", "preparedBy", <<>>, TRUE, FALSE, FALSE, TRUE, "", 64),
    Op("Field", "Date:", "date", <<>>, TRUE, FALSE, TRUE, TRUE, "", 65),
    Op("Gap", "", "", <<>>, TRUE, FALSE, FALSE, TRUE, "", 67),
    Op("Section", "1. EXECUTIVE SUMMARY", "", <<>>, TRUE, FALSE, FALSE, TRUE, "", 70),
    Op("Sub", "1.1 Purpose of the Report", "", <<>>, TRUE, FALSE, FALSE, TRUE, "", 72),
    Op("Field", "Purpose", "executiveSummary.purposeOfReport", <<"executiveSummary">>, TRUE, TRUE, FALSE, FALSE, "", 73),
    Op("Sub", "1.2 Key Highlights", "", <<>>, TRUE, FALSE, FALSE, TRUE, "", 75),
    Op("Field", "- Reduction in Workplace Injuries", "executiveSummary.keyHighlights.injuryReduction", <<"executiveSummary", "executiveSummary.keyHighlights">>, TRUE, FALSE, FALSE, TRUE, "", 76),
    Op("Field", "- Safety Training", "executiveSummary.keyHighlights.safetyTraining", <<"executiveSummary", "executiveSummary.keyHighlights">>, TRUE, FALSE, FALSE, TRUE, "", 77),
    Op("Field", "- Emergency Drills", "executiveSummary.keyHighlights.emergencyDrills", <<"executiveSummary", "executiveSummary.keyHighlights">>, TRUE, FALSE, FALSE, TRUE, "", 78),
    Op("Field", "- Risk Assessment Completion", "executiveSummary.keyHighlights.riskAssessmentCompletion", <<"executiveSummary", "executiveSummary.keyHighlights">>, TRUE, FALSE, FALSE, TRUE, "", 79),
    Op("Section", "2. HEALTH AND SAFETY POLICY STATEMENT", "", <<>>, TRUE, FALSE, FALSE, TRUE, "", 82),
    Op("Field", "Policy Statement", "policyStatement", <<>>, TRUE, TRUE, FALSE, FALSE, "", 83),
    Op("Section", "3. HEALTH AND SAFETY PERFORMANCE INDICATORS", "", <<>>, TRUE, FALSE, FALSE, TRUE, "", 86),
    Op("Sub", "3.1 Incident Summary", "", <<>>, TRUE, FALSE, FALSE, TRUE, "", 88),
    Op("Field", "Total Number of Incidents", "healthAndSafetyPerformance.incidentSummary.totalIncidents", <<"healthAndSafetyPerformance", "healthAndSafetyPerformance.incidentSummary">>, TRUE, FALSE, FALSE, TRUE, "", 90),
    Op("Field", "Minor Injuries", "healthAndSafetyPerformance.incidentSummary.minorInjuries", <<"healthAndSafetyPerformance", "healthAndSafetyPerformance.incidentSummary">>, TRUE, FALSE, FALSE, TRUE, "", 91),
    Op("Field", "Major Accidents/Fatalities", "healthAndSafetyPerformance.incidentSummary.majorAccidents", <<"healthAndSafetyPerformance", "healthAndSafetyPerformance.incidentSummary">>, TRUE, FALSE, FALSE, TRUE, "", 92),
    Op("Field", "Lost Time Injury Frequency Rate (LTIFR)", "healthAndSafetyPerformance.incidentSummary.ltifr", <<"healthAndSafetyPerformance", "healthAndSafetyPerformance.incidentSummary">>, TRUE, FALSE, FALSE, TRUE, "", 93),
    Op("Field", "Total Recordable Incident Rate (TRIR)", "healthAndSafetyPerformance.incidentSummary.trir", <<"healthAndSafetyPerformance", "healthAndSafetyPerformance.incidentSummary">>, TRUE, FALSE, FALSE, TRUE, "", 94),
    Op("Sub", "3.2 Year-on-Year Comparison", "", <<>>, TRUE, FALSE, FALSE, TRUE, "", 96),
    Op("Field", "", "healthAndSafetyPerformance.yearOnYearComparison", <<"healthAndSafetyPerformance">>, TRUE, TRUE, FALSE, FALSE, "", 97),
    Op("Sub", "3.3 Leading Indicators", "", <<>>, TRUE, FALSE, FALSE, TRUE, "", 99),
    Op("Field", "", "healthAndSafetyPerformance.leadingIndicators", <<"healthAndSafetyPerformance">>, TRUE, TRUE, FALSE, FALSE, "", 100),
    Op("Section", "4. SAFETY TRAINING AND EDUCATION", "", <<>>, TRUE, FALSE, FALSE, TRUE, "", 103),
    Op("Sub", "4.1 Training Initiatives", "", <<>>, TRUE, FALSE, FALSE, TRUE, "", 106),
    Op("Field", "Number of Employees Trained", "safetyTraining.trainingInitiatives.employeesTrained", <<"safetyTraining", "safetyTraining.trainingInitiatives">>, TRUE, FALSE, FALSE, TRUE, "", 107),
    Op("Field", "Topics Covered", "safetyTraining.trainingInitiatives.topicsCovered", <<"safetyTraining", "safetyTraining.trainingInitiatives">>, TRUE, FALSE, FALSE, TRUE, "", 108),
    Op("Field", "Specialized Training", "safetyTraining.trainingInitiatives.specializedTraining", <<"safetyTraining", "safetyTraining.trainingInitiatives">>, TRUE, FALSE, FALSE, TRUE, "", 109),
    Op("Sub", "4.2 New Hire Orientation", "", <<>>, TRUE, FALSE, FALSE, TRUE, "", 111),
    Op("Field", "", "safetyTraining.newHireOrientation", <<"safetyTraining">>, TRUE, TRUE, FALSE, FALSE, "", 112),
    Op("Sub", "4.3 Refresher Courses", "", <<>>, TRUE, FALSE, FALSE, TRUE, "", 114),
    Op("Field", "", "safetyTraining.refresherCourses", <<"safetyTraining">>, TRUE, TRUE, FALSE, FALSE, "", 115),
    Op("Section", "5. HAZARD IDENTIFICATION AND RISK ASSESSMENT", "", <<>>, TRUE, FALSE, FALSE, TRUE, "", 118),
    Op("Sub", "5.1 Risk Assessments", "", <<>>, TRUE, FALSE, FALSE, TRUE, "", 121),
    Op("Field", "Completion Rate", "hazardIdentification.riskAssessments.completionRate", <<"hazardIdentification", "hazardIdentification.riskAssessments">>, TRUE, FALSE, FALSE, TRUE, "", 122),
    Op("Field", "Methodology Used", "hazardIdentification.riskAssessments.methodology", <<"hazardIdentification", "hazardIdentification.riskAssessments">>, TRUE, FALSE, FALSE, TRUE, "", 123),
    Op("Sub", "5.2 Top Hazards Identified", "", <<>>, TRUE, FALSE, FALSE, TRUE, "", 125),
    Op("Field", "", "hazardIdentification.topHazards", <<"hazardIdentification">>, TRUE, FALSE, FALSE, FALSE, "", 126),
    Op("Sub", "5.3 Control Measures Implemented", "", <<>>, TRUE, FALSE, FALSE, TRUE, "", 128),
    Op("Field", "", "hazardIdentification.controlMeasures", <<"hazardIdentification">>, TRUE, FALSE, FALSE, FALSE, "", 129),
    Op("Section", "6. INCIDENT INVESTIGATIONS AND CORRECTIVE ACTIONS", "", <<>>, TRUE, FALSE, FALSE, TRUE, "", 132),
    Op("Field", "Total Incidents Investigated", "incidentInvestigations.totalInvestigated", <<"incidentInvestigations">>, TRUE, FALSE, FALSE, TRUE, "", 135),
    Op("Field", "Root Causes Identified", "incidentInvestigations.rootCauses", <<"incidentInvestigations">>, TRUE, FALSE, FALSE, TRUE, "", 136),
    Op("Field", "Corrective Actions Taken", "incidentInvestigations.correctiveActions", <<"incidentInvestigations">>, TRUE, FALSE, FALSE, TRUE, "", 137),
    Op("Field", "Follow-Up and Verification", "incidentInvestigations.followUpVerification", <<"incidentInvestigations">>, TRUE, FALSE, FALSE, TRUE, "", 138),
    Op("Section", "7. EMERGENCY PREPAREDNESS", "", <<>>, TRUE, FALSE, FALSE, TRUE, "", 141),
    Op("Sub", "7.1 Emergency Drills", "", <<>>, TRUE, FALSE, FALSE, TRUE, "", 144),
    Op("Field", "Drills Conducted", "emergencyPreparedness.drills.drillsConducted", <<"emergencyPreparedness", "emergencyPreparedness.drills">>, TRUE, FALSE, FALSE, TRUE, "", 145),
    Op("Field", "Participation Rate", "emergencyPreparedness.drills.participationRate", <<"emergencyPreparedness", "emergencyPreparedness.drills">>, TRUE, FALSE, FALSE, TRUE, "", 146),
    Op("Field", "Evacuation Success Rate", "emergencyPreparedness.drills.evacuationSuccessRate", <<"emergencyPreparedness", "emergencyPreparedness.drills">>, TRUE, FALSE, FALSE, TRUE, "", 147),
    Op("Sub", "7.2 First Aid and Response Capabilities", "", <<>>, TRUE, FALSE, FALSE, TRUE, "", 149),
    Op("Field", "", "emergencyPreparedness.firstAidCapabilities", <<"emergencyPreparedness">>, TRUE, FALSE, FALSE, FALSE, "", 150),
    Op("Sub", "7.3 Emergency Response Plans", "", <<>>, TRUE, FALSE, FALSE, TRUE, "", 152),
    Op("Field", "", "emergencyPreparedness.emergencyResponsePlans", <<"emergencyPreparedness">>, TRUE, FALSE, FALSE, FALSE, "", 153),
    Op("Section", "8. PPE AND EQUIPMENT MANAGEMENT", "", <<>>, TRUE, FALSE, FALSE, TRUE, "", 156),
    Op("Sub", "8.1 PPE Compliance", "", <<>>, TRUE, FALSE, FALSE, TRUE, "", 159),
    Op("Field", "Compliance Rate", "ppeAndEquipment.ppeCompliance.complianceRate", <<"ppeAndEquipment", "ppeAndEquipment.ppeCompliance">>, TRUE, FALSE, FALSE, TRUE, "", 160),
    Op("Field", "Types of PPE Issued", "ppeAndEquipment.ppeCompliance.ppeTypes", <<"ppeAndEquipment", "ppeAndEquipment.ppeCompliance">>, TRUE, FALSE, FALSE, TRUE, "", 161),
    Op("Sub", "8.2 Equipment Inspections", "", <<>>, TRUE, FALSE, FALSE, TRUE, "", 163),
    Op("Field", "", "ppeAndEquipment.equipmentInspections", <<"ppeAndEquipment">>, TRUE, FALSE, FALSE, FALSE, "", 164),
    Op("Section", "9. EMPLOYEE HEALTH AND WELLNESS PROGRAMS", "", <<>>, TRUE, FALSE, FALSE, TRUE, "", 167),
    Op("Field", "9.1 Wellness Initiatives", "employeeHealth.wellnessInitiatives", <<"employeeHealth">>, TRUE, FALSE, FALSE, TRUE, "", 170),
    Op("Field", "9.2 Campaigns and Awareness", "employeeHealth.campaignsAndAwareness", <<"employeeHealth">>, TRUE, FALSE, FALSE, TRUE, "", 171),
    Op("Section", "10. CHALLENGES AND AREAS FOR IMPROVEMENT", "", <<>>, TRUE, FALSE, FALSE, TRUE, "", 174),
    Op("Field", "10.1 Key Challenges", "challenges.keyChallenges", <<"challenges">>, TRUE, FALSE, FALSE, TRUE, "", 177),
    Op("Field", "10.2 Proposed Improvements", "challenges.proposedImprovements", <<"challenges">>, TRUE, FALSE, FALSE, TRUE, "", 178),
    Op("Section", "11. RECOMMENDATIONS", "", <<>>, TRUE, FALSE, FALSE, TRUE, "", 181),
    Op("Field", "", "recommendations", <<>>, TRUE, FALSE, FALSE, FALSE, "", 182),
    Op("Section", "12. SIGN-OFF AND COMPLIANCE STATEMENT", "", <<>>, TRUE, FALSE, FALSE, TRUE, "", 185),
    Op("Field", "Inspector Name:", "signOff.inspectorName", <<"signOff">>, TRUE, FALSE, FALSE, TRUE, "", 187),
    Op("Field", "Inspector Signature:", "signOff.inspectorSignature", <<"signOff">>, TRUE, FALSE, FALSE, TRUE, "", 188),
    Op("Section", "Additional Notes / Appendices", "", <<>>, TRUE, FALSE, FALSE, TRUE, "appendices", 192),
    Op("Field", "", "appendices", <<>>, TRUE, FALSE, FALSE, FALSE, "appendices", 193),
    Op("Footer", "End of Report", "", <<>>, TRUE, FALSE, FALSE, FALSE, "", 201)
  >>

generatePDFEarlier ==
  <<
    Op("Title", "Annual Occupational Health and Safety Report", "", <<>>, TRUE, FALSE, FALSE, TRUE, "", 55),
    Op("Field", "Depot Location:", "depotLocation", <<>>, TRUE, FALSE, FALSE, TRUE, "", 59),
    Op("Field", "Reporting Period:", "reportingPeriod", <<>>, TRUE, FALSE, FALSE, TRUE, "", 60),
    Op("Field", "Prepared By:", "preparedBy", <<>>, TRUE, FALSE, FALSE, TRUE, "", 61),
    Op("Field", "Date:", "date", <<>>, TRUE, FALSE, TRUE, TRUE, "", 62),
    Op("Gap", "", "", <<>>, TRUE, FALSE, FALSE, TRUE, "", 63),
    Op("Section", "1. Executive Summary", "", <<>>, TRUE, FALSE, FALSE, TRUE, "", 66),
    Op("Sub", "1.1 Purpose of the Report", "", <<>>, TRUE, FALSE, FALSE, TRUE, "", 67),
    Op("Field", ":", "purposeOfReport", <<>>, TRUE, FALSE, FALSE, TRUE, "", 68),
    Op("Sub", "1.2 Key Highlights", "", <<>>, TRUE, FALSE, FALSE, TRUE, "", 69),
    Op("Field", "Reduction in Workplace Injuries:", "keyHighlights.injuryReduction", <<"keyHighlights">>, FALSE, FALSE, FALSE, TRUE, "", 70),
    Op("Field", "Safety Training:", "keyHighlights.safetyTraining", <<"keyHighlights">>, FALSE, FALSE, FALSE, TRUE, "", 71),
    Op("Field", "Emergency Drills:", "keyHighlights.emergencyDrills", <<"keyHighlights">>, FALSE, FALSE, FALSE, TRUE, "", 72),
    Op("Field", "Risk Assessment Completion:", "keyHighlights.riskAssessmentCompletion", <<"keyHighlights">>, FALSE, FALSE, FALSE, TRUE, "", 73),
    Op("Section", "2. Health and Safety Policy Statement", "", <<>>, TRUE, FALSE, FALSE, TRUE, "", 76),
    Op("Field", ":", "policyStatement", <<>>, TRUE, FALSE, FALSE, TRUE, "", 77),
    Op("Section", "3. Health and Safety Performance Indicators", "", <<>>, TRUE, FALSE, FALSE, TRUE, "", 80),
    Op("Sub", "3.1 Incident Summary", "", <<>>, TRUE, FALSE, FALSE, TRUE, "", 81),
    Op("Field", "Total Number of Incidents:", "incidentSummary.totalIncidents", <<"incidentSummary">>, FALSE, FALSE, FALSE, TRUE, "", 82),
    Op("Field", "Minor Injuries:", "incidentSummary.minorInjuries", <<"incidentSummary">>, FALSE, FALSE, FALSE, TRUE, "", 83),
    Op("Field", "Major Accidents/Fatalities:", "incidentSummary.majorAccidents", <<"incidentSummary">>, FALSE, FALSE, FALSE, TRUE, "", 84),
    Op("Field", "Lost Time Injury Frequency Rate (LTIFR):", "incidentSummary.ltifr", <<"incidentSummary">>, FALSE, FALSE, FALSE, TRUE, "", 85),
    Op("Field", "Total Recordable Incident Rate (TRIR):", "incidentSummary.trir", <<"incidentSummary">>, FALSE, FALSE, FALSE, TRUE, "", 86),
    Op("Sub", "3.2 Year-on-Year Comparison", "", <<>>, TRUE, FALSE, FALSE, TRUE, "", 87),
    Op("Field", ":", "yearOnYearComparison", <<>>, TRUE, FALSE, FALSE, TRUE, "", 88),
    Op("Sub", "3.3 Leading Indicators", "", <<>>, TRUE, FALSE, FALSE, TRUE, "", 89),
    Op("Field", ":", "leadingIndicators", <<>>, TRUE, FALSE, FALSE, TRUE, "", 90),
    Op("Footer", "End of Report", "", <<>>, TRUE, FALSE, FALSE, FALSE, "", 97)
  >>

Body(v) == IF v = "later" THEN generatePDF ELSE generatePDFEarlier

\* an if that tests whether the property is there, not whether it is truthy
GuardedIfDefined(r, o) == o.guard = "" \/ ValueAt(r, o.guard).t # "undefined"

\* a statement inside if (report.appendices) runs only when the property is truthy
Guarded(r, o) == o.guard = "" \/ Truthy(ValueAt(r, o.guard))

\* the first statement from i on that report r runs
RECURSIVE Skip(_, _, _)
Skip(v, r, i) ==
  IF i <= Len(Body(v)) /\ ~Guarded(r, Body(v)[i]) THEN Skip(v, r, i + 1) ELSE i

\* evaluating a.b on an undefined a raises a TypeError; a?.b gives undefined
Raises(r, o) ==
  ~o.safe /\ \E k \in 1..Len(o.encl) : ValueAt(r, o.encl[k]).t = "undefined"

\* new Date(x) has a time: x is a Date that has one, a number that is a
\* time (NaN and a number beyond 8.64e15 are none), or a string that
\* Date.parse reads (the ISO string of a stored date, a date the user wrote;
\* not the empty string, whitespace or other text)
DateParses(x) ==
  \/ x.t = "date"
  \/ x.t = "number" /\ x.text \notin {"beyond the time range", "NaN"}
  \/ x.t = "string" /\ x.text \in {"ISO date", "date text"}

\* new Date(x).toLocaleDateString(): always a non-empty one-line string, the
\* date in the locale's form or "Invalid Date"
toLocaleDateString(x) ==
  IF DateParses(x) THEN V("string", 10, 1, "locale date")
  ELSE V("string", 12, 1, "Invalid Date")

\* the value argument of an addField statement
Argument(r, o) ==
  LET x == ValueAt(r, o.path)
  IN  IF o.isDate THEN toLocaleDateString(x)
      ELSE IF o.orEmpty /\ ~Truthy(x) THEN EmptyString
      ELSE x

---------------------------------------------------------------------------
(* Reports that are rendered.                                              *)

\* a report of one-line values; its optional fields absent, empty or filled
BaseValue(n, optional) ==
  CASE n.kind = "object" -> Object
    [] n.kind = "string" -> Str(n.min, 1)
    [] n.kind = "optional" ->
         (CASE optional = "absent" -> Undefined
            [] optional = "empty" -> EmptyString
            [] OTHER -> Str(1, 1))
    [] n.kind = "date" -> ValidDate

BaseReport(optional) == [p \in Paths |-> BaseValue(CHOOSE n \in Range(ohsReportSchema) : n.path = p, optional)]

OptionalModes == {"absent", "empty", "filled"}

\* a string of node n that wraps to k lines
Wrapping(n, k) == Str((IF n.min > k THEN n.min ELSE k), k)

\* the other values one field of a rendered report takes
RenderValues(n, maxLines) ==
  CASE n.kind = "object" -> {Undefined}
    [] n.kind = "date" ->
         {Undefined, EmptyString, InvalidDate, DateString, DateText(4, 1), Str(2, 1),
          Number, Zero, HugeNumber, NotANumber}
    [] OTHER -> {Undefined, EmptyString} \cup {Wrapping(n, k) : k \in 1..maxLines}

\* the changes of one field of a rendered report, and no change
RenderChanges(maxLines) ==
  {<<>>} \cup
  UNION {{<<<<i, ohsReportSchema[i].path, x>>>> : x \in RenderValues(ohsReportSchema[i], maxLines)}
         : i \in 1..NN}

\* the changes that leave a field out or leave it empty, those that give the
\* appendix any number of lines, and no change
BlankChanges(maxLines) ==
  RenderChanges(0) \cup
  UNION {{<<<<i, ohsReportSchema[i].path, x>>>> : x \in RenderValues(ohsReportSchema[i], maxLines)}
         : i \in {k \in 1..NN : ohsReportSchema[k].path = "appendices"}}

\* the reports rendered one after another: a few, of different page counts
RunReports(maxLines) ==
  {BaseReport("absent"), BaseReport("filled"),
   Apply(BaseReport("absent"), <<<<1, "policyStatement", Str(10, maxLines)>>>>)}

\* the cursor values addField is entered with: from the top margin to one
\* section-title advance past the threshold, in steps of half a line height
StartCursors(v) ==
  {y \in top(v)..(threshold(v) + (lineHeight(v) * 3) \div 2) :
     (y - top(v)) % (lineHeight(v) \div 2) = 0}

FieldValues(maxLines) == {Undefined, EmptyString} \cup {Str(k, k) : k \in 1..maxLines}

---------------------------------------------------------------------------
(* State.                                                                  *)

NoResult == [status |-> "none", success |-> FALSE, issues |-> <<>>]
NoField == [y0 |-> 0, value |-> Undefined]

\* new jsPDF(): a document of one empty page
NewDocument == <<<<>>>>

\* no second call, no cookie, no server action made
NoSecond ==
  [variant |-> "later", report |-> MinimalRecord, pc |-> 0, status |-> "idle",
   yPos |-> 0, pages |-> NewDocument, breaks |-> 0]
NoCookie == [kind |-> "absent", reports |-> <<>>]
NoReply == [action |-> "none"]
\* no submission made: no id given, nothing to list
NoLedger == [fresh |-> TRUE, given |-> {}, kept |-> <<>>, origin |-> <<>>]
OthersIdle ==
  /\ second = NoSecond /\ cookie = NoCookie /\ clock = 1 /\ reply = NoReply
  /\ ledger = NoLedger

RenderIdle ==
  /\ variant = "later" /\ report = MinimalRecord /\ pc = 0 /\ status = "idle"
  /\ yPos = 0 /\ pages = NewDocument /\ breaks = 0 /\ done = <<>>

ValidateIdle == schema = "ohsReportSchema" /\ candidate = MinimalRecord /\ result = NoResult

\* generatePDF(report) entered: yPos at the top margin, a new document
Init ==
  /\ variant \in Variants
  /\ \E m \in OptionalModes, ch \in RenderChanges(MaxLines) :
       report = Changed(BaseReport(m), ch)
  /\ pc = 1 /\ status = "running"
  /\ yPos = top(variant) /\ pages = NewDocument /\ breaks = 0 /\ done = <<>>
  /\ ValidateIdle /\ fieldIn = NoField /\ OthersIdle

\* generatePDF entered on a report with a field left out or left empty
InitBlank ==
  /\ variant \in Variants
  /\ \E m \in OptionalModes, ch \in BlankChanges(MaxLines) :
       report = Changed(BaseReport(m), ch)
  /\ pc = 1 /\ status = "running"
  /\ yPos = top(variant) /\ pages = NewDocument /\ breaks = 0 /\ done = <<>>
  /\ ValidateIdle /\ fieldIn = NoField /\ OthersIdle

InitRuns ==
  /\ variant \in Variants
  /\ report \in RunReports(MaxLines)
  /\ pc = 1 /\ status = "running"
  /\ yPos = top(variant) /\ pages = NewDocument /\ breaks = 0 /\ done = <<>>
  /\ ValidateIdle /\ fieldIn = NoField /\ OthersIdle

InitValidate ==
  /\ schema \in {"ohsReportSchema", "formSchema"}
  /\ \E ch \in Changes(MaxBroken) : candidate = Changed(MinimalRecord, ch)
  /\ result = NoResult
  /\ RenderIdle /\ fieldIn = NoField /\ OthersIdle

InitValidateOne ==
  /\ schema \in {"ohsReportSchema", "formSchema"}
  /\ \E ch \in WideChanges : candidate = Changed(MinimalRecord, ch)
  /\ result = NoResult
  /\ RenderIdle /\ fieldIn = NoField /\ OthersIdle

InitField ==
  /\ variant \in Variants
  /\ \E y \in StartCursors(variant), x \in FieldValues(MaxFieldLines) : fieldIn = [y0 |-> y, value |-> x]
  /\ report = MinimalRecord /\ pc = 0 /\ status = "field"
  /\ yPos = fieldIn.y0 /\ pages = NewDocument /\ breaks = 0 /\ done = <<>>
  /\ ValidateIdle /\ OthersIdle

---------------------------------------------------------------------------
(* Actions.                                                                *)

Prog == Body(variant)
Cur == Prog[pc]
Now == St(yPos, pages, breaks)

Running(op) == status = "running" /\ pc \in 1..Len(Prog) /\ Cur.op = op

\* the statement at pc leaves the renderer in st
Goto(st) ==
  /\ yPos' = st.yPos /\ pages' = st.pages /\ breaks' = st.breaks
  /\ pc' = Skip(variant, report, pc + 1)
  /\ UNCHANGED <<variant, report, status, done, schema, candidate, result, fieldIn, others>>

Finished(how) == [report |-> report, variant |-> variant, status |-> how, pages |-> pages]

Title == Running("Title") /\ Goto(addTitle(variant, Now, Cur.text, pc))

AddSectionTitle == Running("Section") /\ Goto(addSectionTitle(variant, Now, Cur.text, pc))

AddSubSectionTitle == Running("Sub") /\ Goto(addSubSectionTitle(variant, Now, Cur.text, pc))

\* yPos += lineHeight after the header fields
Gap == Running("Gap") /\ Goto([Now EXCEPT !.yPos = @ + lineHeight(variant)])

\* an addField statement that stores the text it draws back into the report
AddFieldFillingReport ==
  /\ Running("Field")
  /\ IF Raises(report, Cur)
     THEN /\ status' = "raised"
          /\ done' = Append(done, Finished("raised"))
          /\ UNCHANGED <<variant, report, pc, yPos, pages, breaks,
                         schema, candidate, result, fieldIn, others>>
     ELSE LET st == addField(variant, Now, Cur.text, Argument(report, Cur), Cur.bold, pc)
          IN  /\ yPos' = st.yPos /\ pages' = st.pages /\ breaks' = st.breaks
              /\ pc' = Skip(variant, report, pc + 1)
              /\ report' = IF Cur.path \in Paths
                           THEN [report EXCEPT ![Cur.path] = OrNA(Argument(report, Cur))]
                           ELSE report
              /\ UNCHANGED <<variant, status, done, schema, candidate, result, fieldIn, others>>

\* an addField statement: its argument is evaluated (which may raise), then the call
AddField ==
  /\ Running("Field")
  /\ IF Raises(report, Cur)
     THEN /\ status' = "raised"
          /\ done' = Append(done, Finished("raised"))
          /\ UNCHANGED <<variant, report, pc, yPos, pages, breaks,
                         schema, candidate, result, fieldIn, others>>
     ELSE Goto(addField(variant, Now, Cur.text, Argument(report, Cur), Cur.bold, pc))

Footer == Running("Footer") /\ Goto(addFooter(variant, Now, Cur.text, pc))

\* return pdf
Return ==
  /\ status = "running" /\ pc = Len(Prog) + 1
  /\ status' = "returned"
  /\ done' = Append(done, Finished("returned"))
  /\ UNCHANGED <<variant, report, pc, yPos, pages, breaks, schema, candidate, result, fieldIn, others>>

\* a generatePDF whose cursor outlives the call
CallKeepingCursor ==
  /\ status \in {"returned", "raised"} /\ Len(done) < MaxRuns
  /\ \E v \in Variants, r \in RunReports(MaxLines) : variant' = v /\ report' = r
  /\ pc' = 1 /\ status' = "running" /\ pages' = NewDocument /\ breaks' = 0
  /\ UNCHANGED <<yPos, done, schema, candidate, result, fieldIn, others>>

\* generatePDF called again, on any report, after an earlier call ended
Call ==
  /\ status \in {"returned", "raised"} /\ Len(done) < MaxRuns
  /\ \E v \in Variants, r \in RunReports(MaxLines) :
       /\ variant' = v /\ report' = r
       /\ yPos' = top(v)
  /\ pc' = 1 /\ status' = "running" /\ pages' = NewDocument /\ breaks' = 0
  /\ UNCHANGED <<done, schema, candidate, result, fieldIn, others>>

\* a resolver that clears the properties it finds fault with
ValidateClearing ==
  /\ result.status = "none"
  /\ result' = safeParse(schema, candidate)
  /\ candidate' = [p \in Paths |->
                     IF \E i \in 1..Len(result'.issues) : result'.issues[i].path = p
                     THEN Undefined ELSE candidate[p]]
  /\ UNCHANGED <<variant, report, pc, status, yPos, pages, breaks, done, schema, fieldIn, others>>

\* the resolver validates the submitted record
Validate ==
  /\ result.status = "none"
  /\ result' = safeParse(schema, candidate)
  /\ UNCHANGED <<variant, report, pc, status, yPos, pages, breaks, done,
                 schema, candidate, fieldIn, others>>

\* addField applied once, from the cursor and to the value of fieldIn
ApplyAddField ==
  /\ status = "field"
  /\ LET st == addField(variant, Now, "Label", fieldIn.value, TRUE, 1)
     IN  yPos' = st.yPos /\ pages' = st.pages /\ breaks' = st.breaks
  /\ status' = "fieldDone"
  /\ UNCHANGED <<variant, report, pc, done, schema, candidate, result, fieldIn, others>>

Next ==
  \/ Title \/ AddField \/ AddSectionTitle \/ AddSubSectionTitle \/ Gap
  \/ Footer \/ Return

NextRuns == Next \/ Call

Spec == Init /\ [][Next]_vars
SpecBlank == InitBlank /\ [][Next]_vars
SpecRuns == InitRuns /\ [][NextRuns]_vars
SpecValidate == InitValidate /\ [][Validate]_vars
SpecValidateOne == InitValidateOne /\ [][Validate]_vars
SpecField == InitField /\ [][ApplyAddField]_vars


---------------------------------------------------------------------------
(* Two calls in progress at once.                                          *)

\* statement o of generatePDF, run from st
Exec(v, r, o, st, i) ==
  CASE o.op = "Title" -> addTitle(v, st, o.text, i)
    [] o.op = "Section" -> addSectionTitle(v, st, o.text, i)
    [] o.op = "Sub" -> addSubSectionTitle(v, st, o.text, i)
    [] o.op = "Gap" -> [st EXCEPT !.yPos = @ + lineHeight(v)]
    [] o.op = "Field" -> addField(v, st, o.text, Argument(r, o), o.bold, i)
    [] o.op = "Footer" -> addFooter(v, st, o.text, i)

\* generatePDF(r) run from statement i on, with nothing else going on
RECURSIVE RenderFrom(_, _, _, _)
RenderFrom(v, r, i, st) ==
  IF i > Len(Body(v)) THEN [status |-> "returned", pages |-> st.pages]
  ELSE IF Body(v)[i].op = "Field" /\ Raises(r, Body(v)[i])
  THEN [status |-> "raised", pages |-> st.pages]
  ELSE LET next == Exec(v, r, Body(v)[i], st, i)
       IN  IF next.yPos >= 0 THEN RenderFrom(v, r, Skip(v, r, i + 1), next)
           ELSE [status |-> "raised", pages |-> next.pages]

render(v, r) == RenderFrom(v, r, Skip(v, r, 1), St(top(v), NewDocument, 0))

\* a second call whose cursor is the first call's: one yPos for the module
StepSecondSharingCursor ==
  /\ second.status = "running"
  /\ LET prog == Body(second.variant)
         o == prog[second.pc]
         next == Exec(second.variant, second.report, o,
                      St(yPos, second.pages, second.breaks), second.pc)
     IN  IF second.pc > Len(prog)
         THEN second' = [second EXCEPT !.status = "returned"] /\ yPos' = yPos
         ELSE IF o.op = "Field" /\ Raises(second.report, o)
         THEN second' = [second EXCEPT !.status = "raised"] /\ yPos' = yPos
         ELSE /\ second' = [second EXCEPT !.yPos = next.yPos, !.pages = next.pages,
                                          !.breaks = next.breaks,
                                          !.pc = Skip(second.variant, second.report, second.pc + 1)]
              /\ yPos' = next.yPos
  /\ UNCHANGED <<variant, report, pc, status, pages, breaks, done,
                 schema, candidate, result, fieldIn, cookie, clock, reply, ledger>>

\* one statement of the second call, on its own cursor and its own document
StepSecond ==
  /\ second.status = "running"
  /\ LET prog == Body(second.variant)
         o == prog[second.pc]
         next == Exec(second.variant, second.report, o,
                      St(second.yPos, second.pages, second.breaks), second.pc)
     IN  IF second.pc > Len(prog)
         THEN second' = [second EXCEPT !.status = "returned"]
         ELSE IF o.op = "Field" /\ Raises(second.report, o)
         THEN second' = [second EXCEPT !.status = "raised"]
         ELSE second' = [second EXCEPT !.yPos = next.yPos, !.pages = next.pages,
                                       !.breaks = next.breaks,
                                       !.pc = Skip(second.variant, second.report, second.pc + 1)]
  /\ UNCHANGED <<variant, report, pc, status, yPos, pages, breaks, done,
                 schema, candidate, result, fieldIn, cookie, clock, reply, ledger>>

\* two calls of generatePDF on different reports and one validation, all begun
InitPair ==
  /\ variant \in Variants
  /\ report \in RunReports(MaxLines)
  /\ pc = 1 /\ status = "running"
  /\ yPos = top(variant) /\ pages = NewDocument /\ breaks = 0 /\ done = <<>>
  /\ \E v \in Variants, r \in RunReports(MaxLines) \ {report} :
       second = [variant |-> v, report |-> r, pc |-> 1, status |-> "running",
                 yPos |-> top(v), pages |-> NewDocument, breaks |-> 0]
  /\ schema = "ohsReportSchema" /\ candidate = report /\ result = NoResult
  /\ fieldIn = NoField /\ cookie = NoCookie /\ clock = 1 /\ reply = NoReply
  /\ ledger = NoLedger

NextPair == Next \/ StepSecond \/ Validate

SpecPair == InitPair /\ [][NextPair]_vars

---------------------------------------------------------------------------
(* The stored collection: the server actions of src/app/actions.ts.        *)

\* the latest value of Date.now()
MaxClock == 3
\* the most reports the cookie holds
MaxStored == 3

\* the keys of a stored record that the actions are followed on: two
\* top-level keys, one of them a section, and the keys of that section
Keys == {"id", "executiveSummary",
         "executiveSummary.purposeOfReport", "executiveSummary.keyHighlights"}

\* the top-level key that a key is, or is nested in
TopLevel(k) == IF k = "id" THEN "id" ELSE "executiveSummary"

\* the value of a key the object does not have
Missing == "(no such key)"

\* Number.prototype.toString of a clock value
toString(n) == <<"1", "2", "3", "4", "5", "6", "7", "8", "9">>[n]

\* the ids a caller names: those Date.now() gives, and one it never gives
Ids == {toString(n) : n \in 1..MaxClock} \cup {"none"}

\* an object with the given id key and executiveSummary section
Obj(id, section, purposeOfReport, keyHighlights) ==
  [k \in Keys |->
     CASE k = "id" -> id
       [] k = "executiveSummary" -> section
       [] k = "executiveSummary.purposeOfReport" -> purposeOfReport
       [] k = "executiveSummary.keyHighlights" -> keyHighlights]

\* the objects passed as data: with an id key or without, and with no
\* executiveSummary, a whole one, or one that has no keyHighlights
DataValues ==
  {Obj(i, s[1], s[2], s[3]) :
     i \in {Missing, "2"},
     s \in {<<Missing, Missing, Missing>>,
            <<"object", "purpose", "highlights">>,
            <<"object", "revised purpose", Missing>>}}

\* a merge that goes into the sections: key by key at every depth
spreadDeep(a, b) == [k \in Keys |-> IF b[k] # Missing THEN b[k] ELSE a[k]]

\* { ...a, ...b }: the top-level keys of b over those of a, each with
\* everything nested in it
spread(a, b) == [k \in Keys |-> IF b[TopLevel(k)] # Missing THEN b[k] ELSE a[k]]

\* { id: reportId }
OnlyId(reportId) == Obj(reportId, Missing, Missing, Missing)

\* a cookie whose text was cut short: it held a record and is not JSON
CutShort == [kind |-> "unparseable", reports |-> <<OnlyId("1")>>]

\* a parse with no try and catch, that reads whatever the text held
parseJSONUnguarded(c) == c.reports

\* parseJSON(cookieStore.get(REPORTS_KEY)?.value): [] for no cookie and for
\* one that is not JSON
parseJSON(c) == IF c.kind = "json" THEN c.reports ELSE <<>>

\* cookieStore.set(REPORTS_KEY, JSON.stringify(reports))
Stringified(reports) == [kind |-> "json", reports |-> reports]

\* the ids of a collection, in its order
IdsOf(reports) == [i \in 1..Len(reports) |-> reports[i]["id"]]

\* everything but the cookie, the clock and the last reply
besides == <<variant, report, pc, status, yPos, pages, breaks, done,
             schema, candidate, result, fieldIn, second>>

\* time passes: Date.now() grows
Tick == clock < MaxClock /\ clock' = clock + 1 /\ UNCHANGED <<cookie, reply, ledger, besides>>

\* The ledger is the callers' account of the collection, kept beside the
\* cookie: given, the ids that submissions have received; fresh, whether
\* each submission received an id that none before it had; kept, the ids
\* received by the records submitted and not since deleted by that id, in
\* submission order; origin, for each stored record in the cookie's order,
\* the id its submission received.

\* the account once two submissions have received one id: nothing is
\* followed any further
Stale == [fresh |-> FALSE, given |-> {}, kept |-> <<>>, origin |-> <<>>]

\* the entries of seq at the positions where reports holds a record whose
\* id is not id: what existingReports.filter keeps
KeptBy(seq, reports, id) ==
  LET at == {i \in 1..Len(reports) : reports[i]["id"] # id}
  IN  [j \in 1..Cardinality(at) |->
         seq[CHOOSE i \in at : Cardinality({m \in at : m < i}) = j - 1]]

\* the account after a submission whose record was stored with id id
Submitted(l, id) ==
  IF ~l.fresh \/ id \in l.given THEN Stale
  ELSE [fresh |-> TRUE, given |-> l.given \cup {id},
        kept |-> Append(l.kept, id), origin |-> Append(l.origin, id)]

\* the account after deleteReport(id) on the stored reports
Deleted(l, reports, id) ==
  IF ~l.fresh THEN Stale
  ELSE [l EXCEPT !.kept = SelectSeq(l.kept, LAMBDA k : k # id),
                 !.origin = KeptBy(l.origin, reports, id)]

submitReport(data) ==
  LET reportId == toString(clock)
      newReport == spread(OnlyId(reportId), data)
      existingReports == parseJSON(cookie)
      updatedReports == Append(existingReports, newReport)
  IN  /\ Len(existingReports) < MaxStored
      /\ cookie' = Stringified(updatedReports)
      /\ reply' = [action |-> "submitReport", success |-> TRUE, reportId |-> reportId]
      /\ ledger' = Submitted(ledger, newReport["id"])
      /\ UNCHANGED <<clock, besides>>

getReports ==
  /\ reply' = [action |-> "getReports", reports |-> parseJSON(cookie)]
  /\ UNCHANGED <<cookie, clock, ledger, besides>>

deleteReport(id) ==
  LET existingReports == parseJSON(cookie)
      updatedReports == SelectSeq(existingReports, LAMBDA r : r["id"] # id)
  IN  /\ cookie' = Stringified(updatedReports)
      /\ reply' = [action |-> "deleteReport", success |-> TRUE]
      /\ ledger' = Deleted(ledger, existingReports, id)
      /\ UNCHANGED <<clock, besides>>

editReport(id, data) ==
  LET existingReports == parseJSON(cookie)
      updatedReports == [i \in 1..Len(existingReports) |->
                           IF existingReports[i]["id"] = id
                           THEN spread(existingReports[i], data)
                           ELSE existingReports[i]]
  IN  /\ cookie' = Stringified(updatedReports)
      /\ reply' = [action |-> "editReport", success |-> TRUE]
      /\ UNCHANGED <<clock, ledger, besides>>

SubmitReport == \E data \in DataValues : submitReport(data)
DeleteReport == \E id \in Ids : deleteReport(id)
EditReport == \E id \in Ids, data \in DataValues : editReport(id, data)

\* a browser with no ohs_reports cookie, or with one that is not JSON
InitStore ==
  /\ RenderIdle /\ ValidateIdle /\ fieldIn = NoField /\ second = NoSecond
  /\ cookie \in {NoCookie, CutShort}
  /\ clock = 1 /\ reply = NoReply /\ ledger = NoLedger

NextStore == Tick \/ SubmitReport \/ getReports \/ DeleteReport \/ EditReport

SpecStore == InitStore /\ [][NextStore]_vars
---------------------------------------------------------------------------
(* What is read off a rendered document.                                   *)

\* the draw instructions of the document in drawing order, each with its page
RECURSIVE FlatFrom(_, _)
FlatFrom(pg, k) ==
  IF k > Len(pg) THEN <<>>
  ELSE [i \in 1..Len(pg[k]) |-> [page |-> k, in |-> pg[k][i]]] \o FlatFrom(pg, k + 1)

Flat(pg) == FlatFrom(pg, 1)

\* the wrapped lines drawn by statement op, in drawing order
LinesOf(pg, op) == SelectSeq(Flat(pg), LAMBDA e : e.in.kind = "line" /\ e.in.op = op)

\* the pages that hold something
ContentPages(pg) == {k \in 1..Len(pg) : pg[k] # <<>>}

\* how many wrapped lines one page holds
LinesPerPage(v) == (threshold(v) - top(v)) \div lineHeight(v) + 1

\* the pages after the first that begin with a wrapped line: breaks made mid-field
MidFieldPages(pg) == {k \in 2..Len(pg) : pg[k] # <<>> /\ pg[k][1].kind = "line"}

\* the lines of the value addField was applied to
FieldLineCount == OrNA(fieldIn.value).lines

\* the lines drawn are lines 1..n of the value, once each and in order
InOrderOnce(ls, n) == Len(ls) = n /\ \A i \in 1..Len(ls) : ls[i].in.ln = i

\* drawing order never goes back a page
PagesAscend(ls) == \A i \in 1..(Len(ls) - 1) : ls[i].page <= ls[i + 1].page

---------------------------------------------------------------------------
(* Claims.                                                                 *)

\* C1: in addField, for a value that wraps to n >= 1 lines and any starting
\* cursor, the overflow check runs before each wrapped line (so no line is
\* drawn past the threshold) and the n lines are emitted exactly once each,
\* in their original order, across the page sequence.
C1_LinesOnceInOrder ==
  status = "fieldDone" =>
    LET ls == LinesOf(pages, 1)
    IN  /\ InOrderOnce(ls, FieldLineCount)
        /\ PagesAscend(ls)
        /\ \A i \in 1..Len(ls) : ls[i].in.y <= threshold(variant)

\* a field broken mid-value: lines on the page of the label and on the next
C1_Witness ==
  /\ status = "fieldDone" /\ Len(pages) = 2 /\ FieldLineCount >= 3
  /\ \E i \in 1..Len(pages[1]) : pages[1][i].kind = "line"
  /\ pages[2][1].kind = "line" /\ pages[2][1].ln > 1

\* C2 as stated: a field whose lines drive the cursor past the threshold lies
\* on exactly two consecutive pages, whatever its wrapped line count.
C2_ExactlyTwoPages ==
  (status = "fieldDone" /\ MidFieldPages(pages) # {}) =>
    /\ Cardinality(ContentPages(pages)) = 2
    /\ \E k \in 1..(Len(pages) - 1) : ContentPages(pages) = {k, k + 1}

\* the wrapped lines drawn on page k
LinesOn(pg, k) == Cardinality({i \in 1..Len(pg[k]) : pg[k][i].kind = "line"})

\* C2 amended: such a field lies on consecutive pages, one more than the
\* breaks made before its lines; a page begun by such a break holds at most
\* one page's worth of lines, and holds that many when another break
\* follows it, so the field lies on exactly two pages when the value wraps to
\* at most one page's worth of lines; no line is duplicated or dropped; and
\* the first line after each break is drawn at the new page's top margin.
C2_SplitAcrossPages ==
  (status = "fieldDone" /\ MidFieldPages(pages) # {}) =>
    LET cp == ContentPages(pages)
        first == CHOOSE k \in cp : \A j \in cp : k <= j
    IN  /\ cp = first..Len(pages)
        /\ Cardinality(cp) = Cardinality(MidFieldPages(pages)) + 1
        /\ \A k \in MidFieldPages(pages) :
             /\ LinesOn(pages, k) <= LinesPerPage(variant)
             /\ k + 1 \in MidFieldPages(pages) => LinesOn(pages, k) = LinesPerPage(variant)
             /\ pages[k][1].y = top(variant)
        /\ (FieldLineCount <= LinesPerPage(variant) => Cardinality(cp) = 2)
        /\ InOrderOnce(LinesOf(pages, 1), FieldLineCount)

\* a field split in two, its first page holding the label and some lines
C2_Witness ==
  /\ status = "fieldDone" /\ MidFieldPages(pages) = {2}
  /\ Len(pages[1]) >= 2 /\ pages[2][1].y = top(variant)

\* C3 as stated: the first draw instruction of every page after the first is
\* placed at the top margin, whichever content triggered the break.
C3_FirstDrawAtTopMargin ==
  \A k \in 2..Len(pages) : pages[k] # <<>> => pages[k][1].y = top(variant)

\* C3 amended: whenever the overflow check triggers, one new page is started
\* and the content that triggered the break is drawn on it. A heading, a field
\* label or a wrapped line is drawn at the top margin; the footer, which moves
\* the cursor 10 down after its check, is drawn 10 below the top margin.
C3_FirstDrawAtTopOrFooterGap ==
  /\ Len(pages) = breaks + 1
  /\ \A k \in 2..Len(pages) :
       /\ pages[k] # <<>>
       /\ pages[k][1].kind \in {"section", "sub", "label", "line", "footer"}
       /\ pages[k][1].y = IF pages[k][1].kind = "footer" THEN top(variant) + 10
                          ELSE top(variant)

\* a document whose last page was started by the footer, after one started by
\* other content
C3_Witness ==
  /\ status = "returned" /\ variant = "later" /\ Len(pages) >= 3
  /\ pages[Len(pages)][1].kind = "footer"
  /\ pages[2][1].kind \in {"section", "sub", "label", "line"}

---------------------------------------------------------------------------
(* Validation claims.                                                      *)

\* the optional fields of the report
OptionalPaths ==
  {"healthAndSafetyPerformance.yearOnYearComparison",
   "healthAndSafetyPerformance.leadingIndicators",
   "signOff.inspectorSignature", "appendices"}

\* the required fields of a schema: its strings with a minimum and its date
RequiredNodes(s) == {n \in Range(SchemaOf(s)) : n.kind \in {"string", "date"}}

\* the minimum length the report's rules give a required string field
RuleMinimum(n) ==
  IF n.path \in {"depotLocation", "reportingPeriod", "preparedBy"} THEN 2
  ELSE IF n.path \in {"executiveSummary.purposeOfReport", "policyStatement"} THEN 10
  ELSE n.min

\* the rule of required field n is met by candidate c
RuleMet(c, n) ==
  IF n.kind = "date" THEN c[n.path].t = "date"
  ELSE c[n.path].t = "string" /\ c[n.path].len >= RuleMinimum(n)

\* where a violation of the field at path p is reported: at p, unless an
\* enclosing record is not there, then at the outermost such record
RECURSIVE ReportedAt(_, _)
ReportedAt(c, p) ==
  LET par == ParentOf[p]
  IN  IF par = "" THEN p
      ELSE LET up == ReportedAt(c, par)
           IN  IF up # par THEN up
               ELSE IF c[par].t # "object" THEN par ELSE p

IssuePaths(r) == {r.issues[i].path : i \in 1..Len(r.issues)}

\* C4: validation succeeds with zero violations if and only if every required
\* string field has at least its minimum length (2, 10, and 1 or 2 for the
\* remaining fields) and date is a well-formed date; an optional field that is
\* absent or any string, the empty one included, never causes a violation.
C4_ValidIffRulesMet ==
  result.status = "parsed" =>
    LET optional == OptionalPaths \cap {n.path : n \in Range(SchemaOf(schema))}
        stringOrAbsent(p) == candidate[p].t \in {"string", "undefined"}
    IN  /\ \A n \in RequiredNodes(schema) : n.kind = "string" => RuleMinimum(n) \in {1, 2, 10}
        /\ result.success <=> result.issues = <<>>
        /\ (\A p \in optional : stringOrAbsent(p)) =>
             (result.success <=> \A n \in RequiredNodes(schema) : RuleMet(candidate, n))
        /\ \A p \in optional : stringOrAbsent(p) => p \notin IssuePaths(result)

\* a record accepted with a required string of exactly its minimum length and
\* an optional field that is the empty string
C4_Witness ==
  /\ result.status = "parsed" /\ result.success
  /\ candidate["healthAndSafetyPerformance.leadingIndicators"] = EmptyString
  /\ candidate["policyStatement"].len = 10

\* the fields zod evaluates: those whose enclosing records are all there
Evaluated(c, n) == EvaluatedIn(c, n.parent)

\* the fields of the candidate that break their rules: a required string
\* that is missing or too short, a date that is none, an optional field
\* that is neither absent nor a string
BrokenFields(s, c) ==
  {n \in Range(SchemaOf(s)) :
     /\ n.kind # "object"
     /\ (IF n.kind = "optional"
         THEN c[n.path].t \notin {"string", "undefined"}
         ELSE ~RuleMet(c, n))}

\* the section records that are evaluated and are no records
BrokenRecords(s, c) ==
  {n \in Range(SchemaOf(s)) :
     n.kind = "object" /\ Evaluated(c, n) /\ c[n.path].t # "object"}

\* C5 as stated: when k distinct fields break their rules, the result is a
\* failure whose list holds an entry for each of the k fields, carrying the
\* field's dotted path and a message.
C5_EveryBrokenFieldListed ==
  result.status = "parsed" =>
    LET broken == BrokenFields(schema, candidate)
    IN  /\ \A n \in broken :
             \E i \in 1..Len(result.issues) :
               result.issues[i].path = n.path /\ result.issues[i].message # ""
        /\ broken # {} => ~result.success

\* C5 amended: validation reports every violation found, not only the first:
\* when k distinct fields, each within section records that are present,
\* break their rules, the result is a failure whose list holds one entry for
\* each of the k fields, carrying the field's dotted path and a message. A
\* section record that is absent or no record has one entry at its own path,
\* and the fields within it have none. The list holds nothing else.
C5_EveryViolationReported ==
  result.status = "parsed" =>
    LET broken == {n \in BrokenFields(schema, candidate) : Evaluated(candidate, n)}
        records == BrokenRecords(schema, candidate)
    IN  /\ \A n \in broken \cup records :
             \E i \in 1..Len(result.issues) :
               result.issues[i].path = n.path /\ result.issues[i].message # ""
        /\ \A n \in Range(SchemaOf(schema)) :
             ~Evaluated(candidate, n) => n.path \notin IssuePaths(result)
        /\ Len(result.issues) = Cardinality(broken) + Cardinality(records)
        /\ BrokenFields(schema, candidate) \cup records # {} => ~result.success

\* two fields of different sections broken at once, both reported
C5_Witness ==
  /\ result.status = "parsed" /\ Len(result.issues) = 2
  /\ candidate["depotLocation"].t = "string" /\ candidate["depotLocation"].len < 2
  /\ candidate["signOff.inspectorName"].t = "undefined"
  /\ IssuePaths(result) = {"depotLocation", "signOff.inspectorName"}

\* C6 as stated: every required field missing from the candidate, whichever
\* way it is missing, has a violation at the field's own dotted path.
C6_MissingFieldAtItsPath ==
  result.status = "parsed" =>
    \A n \in RequiredNodes(schema) :
      candidate[n.path].t = "undefined" => n.path \in IssuePaths(result)

\* C6 amended: every required field missing from the candidate has a
\* violation at the field's dotted path when its enclosing records are there,
\* and at the path of the outermost enclosing record that is not there
\* otherwise, with none at the field's own path then; validation never
\* succeeds while a required-field rule is unmet.
C6_MissingFieldReported ==
  result.status = "parsed" =>
    \A n \in RequiredNodes(schema) :
      /\ candidate[n.path].t = "undefined" =>
           /\ ReportedAt(candidate, n.path) \in IssuePaths(result)
           /\ (Evaluated(candidate, n) <=> n.path \in IssuePaths(result))
      /\ ~RuleMet(candidate, n) => ~result.success

\* a required field missing with its section, and one missing from a section
\* that is there
C6_Witness ==
  /\ result.status = "parsed" /\ ~result.success
  /\ candidate["challenges"].t = "undefined"
  /\ candidate["challenges.keyChallenges"].t = "undefined"
  /\ candidate["signOff.inspectorName"].t = "undefined"
  /\ IssuePaths(result) = {"challenges", "signOff.inspectorName"}

---------------------------------------------------------------------------
(* Document claims.                                                        *)

HeaderLabels == <<"Depot Location:", "Reporting Period:", "Prepared By:", "Date:">>

SectionTitles ==
  <<"1. EXECUTIVE SUMMARY",
    "2. HEALTH AND SAFETY POLICY STATEMENT",
    "3. HEALTH AND SAFETY PERFORMANCE INDICATORS",
    "4. SAFETY TRAINING AND EDUCATION",
    "5. HAZARD IDENTIFICATION AND RISK ASSESSMENT",
    "6. INCIDENT INVESTIGATIONS AND CORRECTIVE ACTIONS",
    "7. EMERGENCY PREPAREDNESS",
    "8. PPE AND EQUIPMENT MANAGEMENT",
    "9. EMPLOYEE HEALTH AND WELLNESS PROGRAMS",
    "10. CHALLENGES AND AREAS FOR IMPROVEMENT",
    "11. RECOMMENDATIONS",
    "12. SIGN-OFF AND COMPLIANCE STATEMENT">>

AppendixTitle == "Additional Notes / Appendices"

\* the block openers of a document in drawing order: its title, header
\* labels, section titles and footer
Blocks(pg) ==
  LET opens == SelectSeq(Flat(pg), LAMBDA e :
                 \/ e.in.kind \in {"title", "section", "footer"}
                 \/ e.in.kind = "label" /\ e.in.text \in Range(HeaderLabels))
  IN  [i \in 1..Len(opens) |-> opens[i].in.text]

\* the blocks of the document of report r, in their fixed order
BlockOrder(r) ==
  <<"ANNUAL OCCUPATIONAL HEALTH AND SAFETY REPORT">> \o HeaderLabels \o SectionTitles
  \o (IF Truthy(r["appendices"]) THEN <<AppendixTitle>> ELSE <<>>)
  \o <<"End of Report">>

\* C7: for every report the later renderer emits the blocks in one fixed
\* order: the title and the header fields (depot, period, preparer, date),
\* the section titles 1 to 12 ascending, the appendix block if there is one,
\* the footer; no section title is omitted, duplicated or reordered, wherever
\* the page breaks fall. While the renderer runs, what it has emitted is the
\* beginning of that order; when it returns, it is the whole of it.
C7_BlocksInFixedOrder ==
  (variant = "later" /\ status \in {"running", "returned"}) =>
    LET b == Blocks(pages)
        order == BlockOrder(report)
    IN  /\ Len(b) <= Len(order)
        /\ b = SubSeq(order, 1, Len(b))
        /\ status = "returned" => b = order

\* a document with an appendix, a section title that opens a page and a page
\* opened in the middle of a field
C7_Witness ==
  /\ status = "returned" /\ variant = "later" /\ Truthy(report["appendices"])
  /\ \E k \in 2..Len(pages) : pages[k][1].kind = "section"
  /\ \E k \in 2..Len(pages) : pages[k][1].kind = "line"

\* the heading an optional field is rendered under
HeadingOf(p) ==
  CASE p = "healthAndSafetyPerformance.yearOnYearComparison" -> "3.2 Year-on-Year Comparison"
    [] p = "healthAndSafetyPerformance.leadingIndicators" -> "3.3 Leading Indicators"
    [] p = "signOff.inspectorSignature" -> "Inspector Signature:"
    [] p = "appendices" -> AppendixTitle

\* the document shows the heading of p and then, as the whole value, "N/A"
Placeholder(pg, p) ==
  LET f == Flat(pg)
  IN  \E j \in 1..Len(f) :
        /\ f[j].in.text = HeadingOf(p)
        /\ \E l \in (j + 1)..Len(f) :
             /\ f[l].in.kind = "line" /\ f[l].in.text = "N/A"
             /\ \A m \in (j + 1)..(l - 1) : f[m].in.kind = "label"
             /\ Len(LinesOf(pg, f[l].in.op)) = 1

\* the addField statement of the later renderer that draws the field at p
StatementOf(p) ==
  CHOOSE i \in 1..Len(generatePDF) : generatePDF[i].op = "Field" /\ generatePDF[i].path = p

\* the later renderer has run the statement that draws p, or skipped it
Past(p) == variant = "later" /\ status \in {"running", "returned"} /\ pc > StatementOf(p)

\* C8 as stated: each of the four optional fields, when absent, is rendered
\* as its label or heading followed by the placeholder "N/A".
C8_PlaceholderForEveryOptional ==
  \A p \in OptionalPaths :
    (Past(p) /\ report[p].t = "undefined") => Placeholder(pages, p)

\* C8 amended: an absent yearOnYearComparison, leadingIndicators or
\* signOff.inspectorSignature is rendered as its label or heading followed by
\* the placeholder "N/A", never an empty string, a blank line or an omitted
\* label; an absent appendices is rendered as nothing: the appendix block,
\* heading included, is left out.
C8_PlaceholderOrNoAppendix ==
  /\ \A p \in OptionalPaths \ {"appendices"} :
       (Past(p) /\ report[p].t = "undefined") => Placeholder(pages, p)
  /\ (Past("appendices") /\ report["appendices"].t = "undefined") =>
       \A e \in Range(Flat(pages)) :
         e.in.text # AppendixTitle /\ generatePDF[e.in.op].guard = ""

\* a returned document of a report with all four optional fields absent
C8_Witness ==
  /\ status = "returned" /\ variant = "later"
  /\ \A p \in OptionalPaths : report[p].t = "undefined"
  /\ \E e \in Range(Flat(pages)) : e.in.kind = "line" /\ e.in.text = "N/A"

\* C9: rendering is deterministic and leaves no state behind: two calls of
\* generatePDF on the same report, whatever was rendered between them, give
\* the same pages, with the same text at the same positions.
C9_SameReportSamePages ==
  \A i, j \in 1..Len(done) :
    (done[i].report = done[j].report /\ done[i].variant = done[j].variant) =>
      done[i].status = done[j].status /\ done[i].pages = done[j].pages

\* the same report rendered first and third, another one between them
C9_Witness ==
  /\ Len(done) = 3 /\ done[1].variant = "later" /\ done[3].variant = "later"
  /\ done[1].report = done[3].report /\ done[2].report # done[1].report
  /\ done[1].status = "returned" /\ Len(done[1].pages) >= 3

\* C10 as stated: for every report the schema accepts, generatePDF returns a
\* document and does not raise, in both renderer variants.
C10_AcceptedReportRenders ==
  status = "raised" => ~safeParse("ohsReportSchema", report).success

\* the section records of the report
SectionPaths == {n.path : n \in {x \in Range(ohsReportSchema) : x.kind = "object"}}

\* C11 as stated: when a whole section record (executiveSummary, signOff,
\* ...) is missing from the report, rendering fails with an error and returns
\* no document.
C11_MalformedReportFails ==
  (\E p \in SectionPaths : report[p].t # "object") => status # "returned"

YearOnYear == "healthAndSafetyPerformance.yearOnYearComparison"

\* a valid report whose strings each wrap to one line
ShortValid(r) ==
  /\ \A p \in SectionPaths : r[p].t = "object"
  /\ \A n \in RequiredNodes("ohsReportSchema") :
       RuleMet(r, n) /\ (n.kind = "string" => r[n.path].lines = 1)
  /\ \A p \in OptionalPaths : r[p].t = "undefined" \/ (r[p].t = "string" /\ r[p].lines <= 1)

\* what opens the first page: the title, the header labels, section 1 with
\* its sub-headings and field labels
FirstPageOpening ==
  <<"ANNUAL OCCUPATIONAL HEALTH AND SAFETY REPORT">> \o HeaderLabels \o
  <<"1. EXECUTIVE SUMMARY", "1.1 Purpose of the Report", "Purpose", "1.2 Key Highlights",
    "- Reduction in Workplace Injuries", "- Safety Training", "- Emergency Drills",
    "- Risk Assessment Completion">>

\* the headings and labels of one page, in drawing order
HeadsOf(page) ==
  LET h == SelectSeq(page, LAMBDA e : e.kind # "line")
  IN  [i \in 1..Len(h) |-> h[i].text]

\* C12: for a valid report of one-line values whose yearOnYearComparison is
\* absent, the first page holds, in order, the title, the four header fields,
\* "1. EXECUTIVE SUMMARY" with its sub-fields (each label followed by its
\* value), and "3.2 Year-on-Year Comparison" followed by the value "N/A".
C12_FirstPageOfShortReport ==
  (Past(YearOnYear) /\ report[YearOnYear].t = "undefined" /\ ShortValid(report)) =>
    LET page == pages[1]
        heads == HeadsOf(page)
    IN  /\ Len(heads) > Len(FirstPageOpening)
        /\ SubSeq(heads, 1, Len(FirstPageOpening)) = FirstPageOpening
        /\ \A i \in 1..Len(page) :
             (page[i].kind = "label" /\ page[i].text \in Range(FirstPageOpening)) =>
               /\ i < Len(page)
               /\ page[i + 1].kind = "line" /\ page[i + 1].op = page[i].op
        /\ Placeholder(<<page>>, YearOnYear)

\* the short report rendered whole: three pages, "N/A" for 3.2 on the first
C12_Witness ==
  /\ status = "returned" /\ variant = "later" /\ report = BaseReport("absent")
  /\ safeParse("ohsReportSchema", report).success
  /\ Len(pages) = 3 /\ Placeholder(<<pages[1]>>, YearOnYear)

---------------------------------------------------------------------------
(* More validation claims.                                                 *)

\* every rule of the schema but the one at path p is met by candidate c
OnlyRuleUnmet(c, p) ==
  /\ \A q \in SectionPaths : c[q].t = "object"
  /\ \A n \in RequiredNodes(schema) : n.path # p => RuleMet(c, n)
  /\ \A q \in OptionalPaths : c[q].t \in {"string", "undefined"}

\* C13: for a candidate that meets every rule except that policyStatement is
\* 5 characters long, validation returns exactly one violation, at path
\* policyStatement, and no other; validation does not modify the candidate.
C13_OneViolationAtPolicyStatement ==
  /\ [](( /\ result.status = "parsed"
          /\ candidate["policyStatement"].t = "string"
          /\ candidate["policyStatement"].len = 5
          /\ OnlyRuleUnmet(candidate, "policyStatement") ) =>
          /\ ~result.success
          /\ Len(result.issues) = 1
          /\ result.issues[1].path = "policyStatement"
          /\ result.issues[1].message # "")
  /\ [][candidate' = candidate]_vars

\* the candidate with a policy statement of 5 characters, validated
C13_Witness ==
  /\ result.status = "parsed" /\ schema = "ohsReportSchema"
  /\ candidate = Changed(MinimalRecord, <<<<1, "policyStatement", Str(5, 1)>>>>)
  /\ IssuePaths(result) = {"policyStatement"}

\* candidate c with the content of every string exchanged: whitespace for
\* text and text for whitespace, the lengths kept
Reworded(c) ==
  [p \in Paths |->
     IF c[p].t = "string" /\ c[p].len > 0
     THEN [c[p] EXCEPT !.text = IF @ = "whitespace" THEN "user text" ELSE "whitespace"]
     ELSE c[p]]

\* C14: the minimum-length rules count raw characters, untrimmed: a required
\* string, of whitespace only or not, is at fault exactly when its length is
\* below the field's minimum, and validation gives the same result for any
\* other content of the same lengths.
C14_RawLengthDecides ==
  result.status = "parsed" =>
    /\ \A n \in RequiredNodes(schema) :
         (n.kind = "string" /\ candidate[n.path].t = "string" /\ Evaluated(candidate, n)) =>
           (n.path \in IssuePaths(result) <=> candidate[n.path].len < n.min)
    /\ safeParse(schema, Reworded(candidate)) = result

\* a depot location of two spaces, accepted
C14_Witness ==
  /\ result.status = "parsed" /\ result.success
  /\ candidate["depotLocation"] = Blank(2)

\* C15: a missing or malformed date makes validation fail with one violation
\* at path date, an entry of the same list and of the same form as the
\* violations of the other fields, which are reported with it; validation of
\* such a candidate ends with a result and raises nothing.
C15_DateViolationInList ==
  /\ result.status \in {"none", "parsed"}
  /\ result.status = "parsed" =>
       LET atDate == {i \in 1..Len(result.issues) : result.issues[i].path = "date"}
       IN  /\ \A i \in 1..Len(result.issues) : DOMAIN result.issues[i] = {"path", "message"}
           /\ candidate["date"].t = "date" => atDate = {}
           /\ candidate["date"].t # "date" =>
                /\ ~result.success
                /\ Cardinality(atDate) = 1
                /\ \A i \in atDate : result.issues[i].message # ""
                /\ \A n \in RequiredNodes(schema) :
                     (Evaluated(candidate, n) /\ ~RuleMet(candidate, n)) =>
                       n.path \in IssuePaths(result)

\* an invalid date and a depot location too short, reported together
C15_Witness ==
  /\ result.status = "parsed" /\ Len(result.issues) = 2
  /\ candidate["date"] = InvalidDate
  /\ candidate["depotLocation"].t = "string" /\ candidate["depotLocation"].len = 1
  /\ result.issues[1].path = "depotLocation" /\ result.issues[2].path = "date"

---------------------------------------------------------------------------
(* Claims on what a render touches.                                        *)

\* C16: generatePDF only reads its report argument: no statement of the
\* renderer changes a property of the report, a nested section record
\* included, so after the call every property has the value it had before.
C16_ReportOnlyRead == [][report' = report]_vars

\* a document returned for a report with absent properties, which the
\* renderer draws as "N/A"
C16_Witness ==
  /\ status = "returned" /\ variant = "later" /\ Len(done) = 1
  /\ done[1].report = report
  /\ report[YearOnYear].t = "undefined" /\ report["signOff"].t = "undefined"

\* the locals of the first call, and its outcome once it has ended
firstLocals == <<variant, report, pc, status, yPos, pages, breaks>>
Ended(s) == s \in {"returned", "raised"}

\* C17: two renders of different reports and a validation, their steps
\* interleaved in any way, each give the result they give when run alone; the
\* cursor and the document are local to one call, and no step of one call
\* changes anything of the other.
C17_InterleavedAsAlone ==
  /\ [](/\ Ended(status) =>
             [status |-> status, pages |-> pages] = render(variant, report)
        /\ Ended(second.status) =>
             [status |-> second.status, pages |-> second.pages]
               = render(second.variant, second.report)
        /\ result.status = "parsed" => result = safeParse(schema, candidate))
  /\ [][/\ second' # second => (firstLocals' = firstLocals /\ result' = result)
        /\ firstLocals' # firstLocals => (second' = second /\ result' = result)
        /\ result' # result => (firstLocals' = firstLocals /\ second' = second)]_vars

\* both renders and the validation ended, the two documents different
C17_Witness ==
  /\ status = "returned" /\ second.status = "returned" /\ result.status = "parsed"
  /\ report # second.report /\ Len(pages) # Len(second.pages)
  /\ Len(pages) >= 3 /\ Len(second.pages) >= 3

---------------------------------------------------------------------------
(* Claims on the stored collection.                                        *)

\* the collection the cookie holds
Collection == parseJSON(cookie)
StoredIds == Range(IdsOf(Collection))

\* C18 as stated: after editReport(id, data), for any data, the ids of the
\* stored records are what they were, record by record.
C18_EditKeepsIds ==
  [][\A id \in Ids, data \in DataValues :
       editReport(id, data) => IdsOf(parseJSON(cookie')) = IdsOf(Collection)]_vars

\* C19 as stated: the id stored for a submitted report is the reportId
\* returned and differs from every id already stored, so the stored ids are
\* pairwise distinct after any sequence of submissions.
C19_FreshIds ==
  /\ [](\A i, j \in 1..Len(Collection) :
          i # j => Collection[i]["id"] # Collection[j]["id"])
  /\ [][\A data \in DataValues :
          submitReport(data) =>
            LET after == parseJSON(cookie')
            IN  /\ after[Len(after)]["id"] = reply'.reportId
                /\ reply'.reportId \notin StoredIds]_vars

\* C20 as stated: deleteReport of an id that no stored record has returns
\* success false and leaves the collection as it was.
C20_DeleteOfUnknownIdFails ==
  [][\A id \in Ids :
       (deleteReport(id) /\ id \notin StoredIds) =>
         (~reply'.success /\ parseJSON(cookie') = Collection)]_vars

---------------------------------------------------------------------------
(* C21: what getReports lists.                                             *)

\* C21: from an empty collection, while each submission has received an id
\* of its own, the collection holds exactly the records submitted and not
\* since deleted by the id they received, in submission order (so that
\* deleteReport(id) has removed the record of that id and no other), and
\* getReports returns the collection.
C21_ListsSubmittedNotDeleted ==
  ledger.fresh =>
    /\ ledger.origin = ledger.kept
    /\ reply.action = "getReports" => reply.reports = Collection

---------------------------------------------------------------------------
(* C22: the appendix block.                                                *)

\* the last statement of section 12
LastOfSections == StatementOf("signOff.inspectorSignature")

\* the later renderer is past the place of the appendix block
PastAppendix == Past("appendices")

\* what the document holds after section 12, in drawing order
AfterSections(pg) == SelectSeq(Flat(pg), LAMBDA e : e.in.op > LastOfSections)

\* the appendix block of value x: its title, the empty label of its field,
\* the wrapped lines of x
AppendixBlock(x) == <<"section", "label">> \o [i \in 1..x.lines |-> "line"]

\* after section 12 the document holds the appendix block when emitted is
\* true and nothing when it is false, and then the footer once it is drawn
AppendixPlaced(emitted) ==
  LET rest == AfterSections(pages)
      f == Flat(pages)
      expected == (IF emitted THEN AppendixBlock(report["appendices"]) ELSE <<>>)
                  \o (IF pc > Len(generatePDF) THEN <<"footer">> ELSE <<>>)
  IN  /\ [i \in 1..Len(rest) |-> rest[i].in.kind] = expected
      /\ emitted => rest[1].in.text = AppendixTitle
      /\ \A i \in 1..(Len(f) - 1) : f[i].in.op <= f[i + 1].in.op
      /\ \A i \in 1..Len(f) : f[i].in.text = AppendixTitle => emitted

\* C22 as stated: the appendix block is emitted if and only if the report has
\* an appendices value, after section 12 and before the footer.
C22_AppendixIffPresent ==
  PastAppendix => AppendixPlaced(report["appendices"].t # "undefined")

\* C22 amended: the appendix block (the title "Additional Notes /
\* Appendices" and the field) is emitted if and only if the report has an
\* appendices value that is not the empty string; when emitted it comes after
\* section 12 and before the footer, and otherwise nothing is emitted in its
\* place.
C22_AppendixIffNonEmpty ==
  PastAppendix => AppendixPlaced(Truthy(report["appendices"]))

\* a returned document whose appendix wraps to several lines
C22_Witness ==
  /\ status = "returned" /\ variant = "later"
  /\ report["appendices"].lines >= 2
  /\ Len(AfterSections(pages)) = report["appendices"].lines + 3

---------------------------------------------------------------------------
(* C23: the titles.                                                        *)

\* the overflow check triggers at the cursor as it is
BreakDue == yPos > threshold(variant)

\* where a title is drawn: at the cursor, or at the top margin after a break
TitleStart == IF BreakDue THEN top(variant) ELSE yPos

\* this step draws one instruction of the kind, the text of the statement at
\* pc, at TitleStart: on a new page when the check triggers, after what the
\* current page holds when it does not; and nothing else is drawn or changed
TitleDrawn(kind) ==
  LET in == pages'[Len(pages')][Len(pages'[Len(pages')])]
  IN  /\ in.kind = kind /\ in.text = Cur.text
      /\ in.x = leftMargin /\ in.y = TitleStart
      /\ IF BreakDue
         THEN pages' = Append(pages, <<in>>)
         ELSE pages' = [pages EXCEPT ![Len(pages)] = Append(@, in)]

\* C23: addSectionTitle draws its text at the cursor and advances the cursor
\* by exactly one and a half line heights, addSubSectionTitle draws at the
\* cursor and advances it by exactly one line height, when no page break is
\* triggered; when one is triggered the text is drawn at the top margin of
\* the new page and the same advance is applied from the top margin. In both
\* renderers.
C23_TitlesAdvance ==
  [][/\ AddSectionTitle =>
          /\ TitleDrawn("section")
          /\ 2 * (yPos' - TitleStart) = 3 * lineHeight(variant)
     /\ AddSubSectionTitle =>
          /\ TitleDrawn("sub")
          /\ yPos' - TitleStart = lineHeight(variant)]_vars

\* a sub-section title has just been drawn at the top of a new page, in a
\* document where a section title was drawn lower down a page
C23_Witness ==
  /\ status = "running" /\ Len(pages) >= 2
  /\ pages[Len(pages)] # <<>>
  /\ LET page == pages[Len(pages)]
     IN  /\ Len(page) = 1 /\ page[1].kind = "sub" /\ page[1].y = top(variant)
         /\ yPos = top(variant) + lineHeight(variant)
  /\ \E k \in 1..Len(pages) : \E i \in 1..Len(pages[k]) :
       pages[k][i].kind = "section" /\ pages[k][i].y > top(variant)

---------------------------------------------------------------------------
(* C24: the usable page area.                                              *)

\* the height of an A4 page, in points
PageHeight == 842

\* C24: in the later renderer every title, label and wrapped line is drawn at
\* a y from 50 to 760, never past the overflow threshold, and the footer at a
\* y of 770 at most, so that nothing is placed beyond the height of the page
\* (842), whatever the report and however many lines its values wrap to.
C24_DrawnInsidePage ==
  variant = "later" =>
    \A k \in 1..Len(pages) : \A i \in 1..Len(pages[k]) :
      LET in == pages[k][i]
      IN  /\ in.kind # "footer" => 50 <= in.y /\ in.y <= 760
          /\ in.kind = "footer" => in.y <= 770
          /\ in.y <= PageHeight

\* a returned document of several pages with a wrapped line in the last line
\* of a page, within one line height of the threshold
C24_Witness ==
  /\ status = "returned" /\ variant = "later" /\ Len(pages) >= 2
  /\ \E k \in 1..Len(pages) : \E i \in 1..Len(pages[k]) :
       pages[k][i].kind = "line" /\ pages[k][i].y > 760 - lineHeight(variant)

---------------------------------------------------------------------------
(* C25: no empty page.                                                     *)

\* C25: no empty page is produced. Once the title is drawn every page of the
\* document holds at least one instruction, so every page start is followed
\* by a draw on that page and no two page breaks follow one another; and the
\* document has one page more than the number of times the overflow check
\* triggered, at every point of the render and when it returns.
C25_NoEmptyPage ==
  /\ (status \in {"running", "returned", "raised"} /\ pc > 1) =>
       \A k \in 1..Len(pages) : pages[k] # <<>>
  /\ status \in {"running", "returned", "raised"} => Len(pages) = 1 + breaks

\* a returned document whose footer triggered the overflow check: its last
\* page holds the footer and nothing else
C25_Witness ==
  /\ status = "returned" /\ variant = "later" /\ breaks >= 3
  /\ LET page == pages[Len(pages)]
     IN  Len(page) = 1 /\ page[1].kind = "footer"

---------------------------------------------------------------------------
(* C26: a label parted from its value.                                     *)

\* addField is entered at a cursor where the label fits and a line below it
\* does not: 746 < y <= 760 in the later renderer
LabelFitsAlone ==
  /\ fieldIn.y0 <= threshold(variant)
  /\ fieldIn.y0 + lineHeight(variant) > threshold(variant)

\* C26: when addField draws the label at a cursor y with y <= 760 and
\* y + lineHeight > 760, the overflow check made before the first wrapped
\* line parts them: the label is drawn at y and is the last instruction on
\* its page, the first wrapped line of the value is the first instruction of
\* the next page, at the top margin, and the label is drawn once only.
C26_LabelPartedFromValue ==
  (status = "fieldDone" /\ LabelFitsAlone) =>
    LET f == Flat(pages)
        labels == SelectSeq(f, LAMBDA e : e.in.kind = "label")
    IN  /\ Len(labels) = 1
        /\ f[1].in.kind = "label" /\ f[1].in.y = fieldIn.y0 /\ f[1].page = 1
        /\ Len(pages[1]) = 1
        /\ Len(pages) >= 2 /\ pages[2] # <<>>
        /\ pages[2][1].kind = "line" /\ pages[2][1].ln = 1
        /\ pages[2][1].y = top(variant)

\* the later addField entered at 757 with a value of two lines: the label
\* alone on the first page, the two lines on the second
C26_Witness ==
  /\ status = "fieldDone" /\ variant = "later"
  /\ fieldIn.y0 = 757 /\ fieldIn.value.lines = 2
  /\ Len(pages) = 2 /\ Len(pages[1]) = 1 /\ Len(pages[2]) = 2

---------------------------------------------------------------------------
(* C27: the pages of a report of one-line values.                          *)

\* every value the later renderer draws for report r wraps to one line
OneLineValues(r) ==
  \A i \in 1..Len(generatePDF) :
    (generatePDF[i].op = "Field" /\ Guarded(r, generatePDF[i])) =>
      OrNA(Argument(r, generatePDF[i])).lines = 1

\* the labels before which the page breaks fall
BreakLabels == <<"Topics Covered", "Types of PPE Issued">>

\* the addField statement of the later renderer with the given label
LabelStatement(label) ==
  CHOOSE i \in 1..Len(generatePDF) : generatePDF[i].op = "Field" /\ generatePDF[i].text = label

\* C27: for a report whose rendered values all wrap to exactly one line, with
\* an appendix or without, the later renderer produces exactly 3 pages: the
\* second begins with the label "Topics Covered" and the third with the label
\* "Types of PPE Issued", each at the top margin, and no other page break is
\* made. While the renderer runs, the document has the pages of the labels
\* it has passed.
C27_ThreePages ==
  (variant = "later" /\ status \in {"running", "returned"} /\ OneLineValues(report)) =>
    /\ Len(pages) = 1 + Cardinality({j \in 1..2 : pc > LabelStatement(BreakLabels[j])})
    /\ breaks = Len(pages) - 1
    /\ \A k \in 2..Len(pages) :
         /\ pages[k][1].kind = "label" /\ pages[k][1].text = BreakLabels[k - 1]
         /\ pages[k][1].y = top(variant)
    /\ status = "returned" => Len(pages) = 3

\* a returned three-page document of one-line values with an appendix
C27_Witness ==
  /\ status = "returned" /\ variant = "later" /\ OneLineValues(report)
  /\ Truthy(report["appendices"]) /\ Len(pages) = 3
  /\ pages[3][1].text = "Types of PPE Issued"

---------------------------------------------------------------------------
(* C28: the empty string.                                                  *)

\* the fields of report r that are the empty string
EmptyPaths(r) == {p \in Paths : r[p] = EmptyString}

\* the text the later renderer has drawn as the value of the field at p
ValueTextOf(pg, p) ==
  LET ls == LinesOf(pg, StatementOf(p))
  IN  [i \in 1..Len(ls) |-> ls[i].in.text]

\* the document of report r with the field at p left out
WithoutField(r, p) == render("later", [r EXCEPT ![p] = Undefined])

\* the returned document is the one the report gets with p left out
SameAsAbsent(p) ==
  LET absent == WithoutField(report, p)
  IN  absent.status = "returned" /\ absent.pages = pages

\* C28 as stated: every field, required or optional, whose value is "" is
\* rendered as the text "N/A", an appendices of "" suppresses the appendix
\* block, and the document is the one the report has with the field absent.
C28_EmptyRendersAsNA ==
  (variant = "later" /\ status = "returned") =>
    \A p \in EmptyPaths(report) :
      /\ p # "appendices" => ValueTextOf(pages, p) = <<"N/A">>
      /\ p = "appendices" =>
           \A e \in Range(Flat(pages)) : e.in.text # AppendixTitle
      /\ SameAsAbsent(p)

\* C28 amended: every text field, required or optional, whose value is "" is
\* rendered as the text "N/A", and a date of "" as the text "Invalid Date",
\* which is what an absent date is rendered as; an appendices of "" suppresses
\* the appendix block; the document of a report with a field set to "" is
\* identical to its document with that field absent.
C28_EmptyRendersAsAbsent ==
  (variant = "later" /\ status = "returned") =>
    \A p \in EmptyPaths(report) :
      /\ p \notin {"appendices", "date"} => ValueTextOf(pages, p) = <<"N/A">>
      /\ p = "date" => ValueTextOf(pages, p) = <<"Invalid Date">>
      /\ p = "appendices" =>
           \A e \in Range(Flat(pages)) : e.in.text # AppendixTitle
      /\ SameAsAbsent(p)

\* a returned document of a report whose policy statement, a required
\* field, and whose appendices are both the empty string
C28_Witness ==
  /\ status = "returned" /\ variant = "later"
  /\ {"policyStatement", "appendices"} \subseteq EmptyPaths(report)
  /\ ValueTextOf(pages, "policyStatement") = <<"N/A">>

---------------------------------------------------------------------------
(* C29: what editReport changes.                                           *)

\* the top-level keys of a stored record
TopLevelKeys == {TopLevel(k) : k \in Keys}

\* record after is record before with each top-level key that data has
\* taken from data, with everything nested in it, and every other top-level
\* key left as it was
ShallowMerged(before, data, after) ==
  \A t \in TopLevelKeys : \A k \in {x \in Keys : TopLevel(x) = t} :
    after[k] = IF data[t] # Missing THEN data[k] ELSE before[k]

\* C29: editReport(id, data) merges data into the record whose id is id, one
\* level deep: a top-level key that data has replaces the stored value whole
\* (a section in data replaces the whole stored section), a top-level key
\* that data lacks is retained; every other record and the order of the
\* collection are unchanged; when no record has the id the collection is
\* unchanged; and the call returns success: true in every case.
C29_EditMergesShallowly ==
  [][\A id \in Ids, data \in DataValues :
       (reply'.action = "editReport" /\ editReport(id, data)) =>
         LET after == parseJSON(cookie')
         IN  /\ Len(after) = Len(Collection)
             /\ \A i \in 1..Len(Collection) :
                  IF Collection[i]["id"] = id
                  THEN ShallowMerged(Collection[i], data, after[i])
                  ELSE after[i] = Collection[i]
             /\ id \notin StoredIds => after = Collection
             /\ reply'.success]_vars

\* an edit has been made on a collection of two records, one of which has
\* the section that data carries: its purpose revised, its highlights gone
C29_Witness ==
  /\ reply.action = "editReport" /\ Len(Collection) = 2
  /\ \E i \in 1..2 :
       /\ Collection[i]["executiveSummary.purposeOfReport"] = "revised purpose"
       /\ Collection[i]["executiveSummary.keyHighlights"] = Missing
       /\ Collection[3 - i]["executiveSummary.keyHighlights"] = "highlights"

---------------------------------------------------------------------------
(* C30: a cookie that is absent or is not JSON.                            *)

\* the stored value is absent or cannot be parsed
NothingReadable == cookie.kind \in {"absent", "unparseable"}

\* C30: when the stored value is absent or is not parseable JSON, getReports
\* returns the empty list and leaves the value alone, and a submitReport
\* succeeds and stores a collection that holds the submitted report and
\* nothing else: what the unparseable value held is discarded.
C30_UnreadableIsEmpty ==
  [][NothingReadable =>
       /\ getReports => reply'.reports = <<>> /\ cookie' = cookie
       /\ \A data \in DataValues :
            submitReport(data) =>
              /\ reply'.success /\ reply'.reportId = toString(clock)
              /\ cookie'.kind = "json" /\ Len(cookie'.reports) = 1
              /\ LET stored == cookie'.reports[1]
                 IN  /\ stored["id"] = IF data["id"] # Missing THEN data["id"]
                                       ELSE toString(clock)
                     /\ \A k \in Keys \ {"id"} : stored[k] = data[k]]_vars

\* getReports has answered the empty list on a cookie that is not JSON
C30_Witness ==
  /\ cookie.kind = "unparseable" /\ cookie.reports # <<>>
  /\ reply.action = "getReports" /\ reply.reports = <<>>

====
